---- MODULE Spec2Model ----
(***************************************************************************)
(* pod-visualizer web server (pkg/web/server.go): the fan-out core.        *)
(*                                                                         *)
(* Workers (goroutines): the two change watchers (watchPods,               *)
(* watchDeployments), the fallback ticker (the loop at the end of          *)
(* watchKubernetesEvents), the broadcast consumer (handleBroadcast) and    *)
(* one connection handler per WebSocket connection (handleWebSocket).      *)
(* Shared state: the buffered channel s.broadcast, the map s.clients and   *)
(* the lock s.clientsMux.  The cluster and the browsers are the            *)
(* environment.                                                            *)
(*                                                                         *)
(* A worker's position names the statement it is about to execute (or is   *)
(* blocked in).  Each action is one step between two such positions.       *)
(***************************************************************************)
EXTENDS Integers, Sequences, FiniteSets, TLC

\* ------------------------------------------------------------- bounds
\* Capacity of s.broadcast.  The program uses 256 (server.go:71); the model
\* is checked with a small capacity so that a full queue is reached.
QueueCap == 2
\* The cluster changes at most MaxVersion times (versions 0..MaxVersion).
MaxVersion == 1

\* A pod has at most MaxContainers containers, a deployment at most
\* MaxReplicas desired or ready replicas.
MaxContainers == 2
MaxReplicas == 3
\* The watcher goroutine starts its watchers and its ticker at most
\* MaxLaunches times (the program starts them once).
MaxLaunches == 2
\* The largest deployment of the CLI runs on one deployment and its pods.
MaxFleet == 50

\* Connection handles (*websocket.Conn).
Conns == {"c1", "c2"}
\* Watched resource kinds: one watcher each.
Kinds == {"pods", "deployments"}
\* watch.EventType values (Added, Modified, Deleted and the others).
EventTypes == {"ADDED", "MODIFIED", "DELETED", "BOOKMARK", "ERROR"}
\* Outcomes of the list calls of the data source.
SourceStates == {"ok", "podsErr", "depsErr"}
\* The namespace of a request: "" is the all-namespaces scope.
Namespaces == {"", "prod"}
\* The namespaces of the cluster's pods and deployments.
ItemNamespaces == {"prod", "dev"}

VARIABLES
  cluster,     \* environment: version of the cluster's pods/deployments
  source,      \* environment: which list call of the data source errors
  pods,        \* environment: the pods the data source lists
  deployments, \* environment: the deployments the data source lists
  proc,        \* the web process: main's position, the signal, the exit code
  cli,         \* the CLI process: main's position, its output, the exit code
  ui,          \* the browser client: its globals, socket, timers and page
  conn,        \* per connection: "none", "open", "stalled", "gone", "closed"
  broadcast,   \* s.broadcast: the queued snapshots, oldest first
  clients,     \* s.clients: the registered connections
  clientsMux,  \* s.clientsMux: [w |-> holder of the write lock, r |-> read locks]
  wpc,         \* per watcher: position
  wdata,       \* per watcher: clusterData it is about to offer
  wopen,       \* per watcher: watch sessions opened and not stopped
  tpc,         \* ticker: position
  tdata,       \* ticker: clusterData it is about to offer
  bpc,         \* broadcast consumer: position
  bdata,       \* broadcast consumer: clusterData being published
  btodo,       \* broadcast consumer: connections the range has not reached
  bconn,       \* broadcast consumer: connection of the current iteration
  bsent,       \* history: connections this publish was written to
  bfailed,     \* history: connections whose write failed in this publish
  hpc,         \* per connection handler: position
  hdata,       \* per connection handler: its initial clusterData
  lastver,     \* history, per connection: version of the last snapshot delivered
  lastb,       \* history, per connection: version of the last broadcast delivered
  io           \* history: what the last step did (calls, sends, offers)

vars == <<cluster, source, pods, deployments, proc, cli, ui,
          conn, broadcast, clients, clientsMux,
          wpc, wdata, wopen, tpc, tdata, bpc, bdata, btodo, bconn, bsent, bfailed,
          hpc, hdata, lastver, lastb, io>>

envVars == <<cluster, source, pods, deployments>>
mainVars == <<proc, cli, ui>>
hubVars == <<clients, clientsMux, bpc, bdata, btodo, bconn, bsent, bfailed>>
connVars == <<conn, hpc, hdata, lastver, lastb>>
watchVars == <<wpc, wdata, wopen>>
tickVars == <<tpc, tdata>>

\* ------------------------------------------------------------- values
\* One entry of the step log.
Ev(op, who, arg, n) == [op |-> op, who |-> who, arg |-> arg, n |-> n]

\* ClusterData{}: the zero value returned beside an error.
NoData == [ver |-> -1]

\* The namespace argument the background workers and the connection handler
\* pass to getClusterData: "" is the all-namespaces scope.
AllNamespaces == ""

\* The data source answers its list calls (with a list or with an error); a
\* call made while it does not answer returns when its context is done.
Answers == source # "hang"

\* Lists of at most two elements of S.
Lists(S) == {<<>>} \cup {<<a>> : a \in S} \cup {<<a, b>> : a, b \in S}

\* A pod as the data source returns it: the containers of its spec and the
\* ready flags of its container statuses (none before the pod is started,
\* one per container after).
StatusLists(n) == {<<>>} \cup [1..n -> BOOLEAN]
PodShapes ==
  UNION {{[namespace |-> ns, containers |-> n, statuses |-> st] :
            ns \in ItemNamespaces, st \in StatusLists(n)} :
           n \in 0..MaxContainers}
\* The largest int32, the type of the replica counts and of their totals.
MaxInt32 == 2147483647
\* A desired replica count that two deployments cannot both have without
\* their total leaving int32.
BigReplicas == MaxInt32 \div 2 + 1
\* A deployment as the data source returns it: spec.replicas and
\* status.readyReplicas, which the data source does not relate; one of
\* BigReplicas has none ready.
DeploymentShapes ==
  [namespace : ItemNamespaces, replicas : 0..MaxReplicas, ready : 0..MaxReplicas]
    \cup [namespace : ItemNamespaces, replicas : {BigReplicas}, ready : {0}]
PodLists == Lists(PodShapes)
DeploymentLists == Lists(DeploymentShapes)

\* for _, containerStatus := range ...: if containerStatus.Ready { n++ }
RECURSIVE CountReady(_)
CountReady(st) ==
  IF st = <<>> THEN 0
  ELSE (IF Head(st) THEN 1 ELSE 0) + CountReady(Tail(st))

\* Mutant of PodInfos: every container status counts, ready or not.
PodInfosAnyStatus(ps) ==
  [i \in DOMAIN ps |->
     [Namespace |-> ps[i].namespace,
      ContainerCount |-> ps[i].containers,
      ReadyContainers |-> Len(ps[i].statuses)]]

\* The PodInfo of each pod of the list, in the order received.
PodInfos(ps) ==
  [i \in DOMAIN ps |->
     [Namespace |-> ps[i].namespace,
      ContainerCount |-> ps[i].containers,
      ReadyContainers |-> CountReady(ps[i].statuses)]]

\* The DeploymentInfo of each deployment of the list, in the order received.
DeploymentInfos(ds) ==
  [i \in DOMAIN ds |->
     [Namespace |-> ds[i].namespace,
      Replicas |-> ds[i].replicas, ReadyReplicas |-> ds[i].ready]]

\* What the data source lists for Pods(ns).List / Deployments(ns).List: the
\* objects of namespace ns in its order, all of them for "".
RECURSIVE Listed(_, _)
Listed(xs, ns) ==
  IF xs = <<>> THEN <<>>
  ELSE IF ns = "" \/ xs[1].namespace = ns
         THEN <<xs[1]>> \o Listed(Tail(xs), ns)
         ELSE Listed(Tail(xs), ns)

\* Mutant of GetPods: a failed list call is made once more.
GetPodsRetrying(ns) ==
  [err |-> source = "podsErr",
   items |-> IF source = "podsErr" THEN <<>> ELSE PodInfos(Listed(pods, ns)),
   calls |-> IF source = "podsErr"
               THEN <<Ev("list", "pods", ns, 0), Ev("list", "pods", ns, 0)>>
               ELSE <<Ev("list", "pods", ns, 0)>>]

\* Client.GetPods: one list call, the error handed back.
GetPods(ns) ==
  [err |-> source = "podsErr",
   items |-> IF source = "podsErr" THEN <<>> ELSE PodInfos(Listed(pods, ns)),
   calls |-> <<Ev("list", "pods", ns, 0)>>]

\* Client.GetDeployments: one list call, the error handed back.
GetDeployments(ns) ==
  [err |-> source = "depsErr",
   items |-> IF source = "depsErr" THEN <<>>
             ELSE DeploymentInfos(Listed(deployments, ns)),
   calls |-> <<Ev("list", "deployments", ns, 0)>>]

\* Mutant of Percentage: nothing of an empty total counts as fully ready.
PercentageEmptyFull(ready, total) ==
  IF total > 0 THEN (ready * 10000) \div total ELSE 10000

\* float64(ready) / float64(total) * 100 when total > 0, else 0.0; the value
\* is held in hundredths of a percent, cut off (75.0 is 7500, 33.33.. is 3333).
Percentage(ready, total) ==
  IF total > 0 THEN (ready * 10000) \div total ELSE 0

\* total += x over the records of a list, f the field summed, for the int
\* accumulators of the container counts (64 bits: no list wraps them).
RECURSIVE SumInt(_, _)
SumInt(xs, f) ==
  IF xs = <<>> THEN 0 ELSE xs[1][f] + SumInt(Tail(xs), f)

\* a + b of two int32 values, wrapped around as Go wraps it; no intermediate
\* value leaves int32.
Add32(a, b) ==
  IF b > 0 /\ a > MaxInt32 - b THEN ((a - MaxInt32) + (b - MaxInt32)) - 2
  ELSE IF b < 0 /\ a < (-MaxInt32 - 1) - b THEN ((a + MaxInt32) + (b + MaxInt32)) + 2
  ELSE a + b

\* total += x over the records of a list for the int32 accumulators of the
\* replica counts, in the order of the list.
RECURSIVE Sum32(_, _, _)
Sum32(acc, xs, f) ==
  IF xs = <<>> THEN acc ELSE Sum32(Add32(acc, xs[1][f]), Tail(xs), f)

\* podData[i] = PodData{...}: the record of each PodInfo, at its index.
PodDatas(ps) ==
  [i \in DOMAIN ps |->
     [Namespace |-> ps[i].Namespace,
      ContainerCount |-> ps[i].ContainerCount,
      ReadyContainers |-> ps[i].ReadyContainers]]

\* deploymentData[i] = DeploymentData{...}: the record of each
\* DeploymentInfo, at its index.
DeploymentDatas(ds) ==
  [i \in DOMAIN ds |->
     [Namespace |-> ds[i].Namespace,
      Replicas |-> ds[i].Replicas, ReadyReplicas |-> ds[i].ReadyReplicas]]

\* The ClusterData built from the PodInfo and DeploymentInfo lists: the
\* records, the totals and the two percentages.
ClusterDataOf(ps, ds) ==
  LET tc == SumInt(ps, "ContainerCount")
      rc == SumInt(ps, "ReadyContainers")
      tr == Sum32(0, ds, "Replicas")
      rr == Sum32(0, ds, "ReadyReplicas")
  IN  [Pods |-> PodDatas(ps), Deployments |-> DeploymentDatas(ds),
       TotalContainers |-> tc, ReadyContainers |-> rc,
       ContainerPercentage |-> Percentage(rc, tc),
       TotalReplicas |-> tr, ReadyReplicas |-> rr,
       ReplicaPercentage |-> Percentage(rr, tr)]

\* ------------------------------------------------------------ JSON form
\* The decimal digits of an integer that is not negative, and of one that
\* is (worked out below zero: the digits of -2^31 need no 2^31).
RECURSIVE Digits(_)
Digits(n) == IF n < 10 THEN <<n>> ELSE Digits(n \div 10) \o <<n % 10>>
RECURSIVE DigitsBelow(_)
DigitsBelow(n) ==
  LET d == (10 - (n % 10)) % 10
      rest == (n + d) \div 10
  IN  IF rest = 0 THEN <<d>> ELSE DigitsBelow(rest) \o <<d>>

\* The JSON number of an int or int32 field, and of a float64 percentage
\* (held in hundredths: the last two digits follow the point).
Number(n) ==
  [neg |-> n < 0, digits |-> IF n < 0 THEN DigitsBelow(n) ELSE Digits(n),
   point |-> 0]
Float(h) == [Number(h) EXCEPT !.point = 2]

\* The integer a JSON number's digits stand for (for a percentage, its
\* hundredths), read digit by digit on the number's side of zero.
RECURSIVE Fold(_, _, _)
Fold(acc, ds, sign) ==
  IF ds = <<>> THEN acc ELSE Fold(acc * 10 + sign * ds[1], Tail(ds), sign)
IntOf(tok) == Fold(0, tok.digits, IF tok.neg THEN -1 ELSE 1)

\* Mutant of Marshal: readyContainers carries the total container count.
MarshalMistagged(d) ==
  [pods |-> [i \in DOMAIN d.Pods |->
               [namespace |-> d.Pods[i].Namespace,
                containerCount |-> Number(d.Pods[i].ContainerCount),
                readyContainers |-> Number(d.Pods[i].ReadyContainers)]],
   deployments |-> [i \in DOMAIN d.Deployments |->
                      [namespace |-> d.Deployments[i].Namespace,
                       replicas |-> Number(d.Deployments[i].Replicas),
                       readyReplicas |-> Number(d.Deployments[i].ReadyReplicas)]],
   totalContainers |-> Number(d.TotalContainers),
   readyContainers |-> Number(d.TotalContainers),
   containerPercentage |-> Float(d.ContainerPercentage),
   totalReplicas |-> Number(d.TotalReplicas),
   readyReplicas |-> Number(d.ReadyReplicas),
   replicaPercentage |-> Float(d.ReplicaPercentage)]

\* json.Marshal of a ClusterData by its `json:"..."` tags: an object of the
\* keys pods, deployments, totalContainers, ...; the lists as arrays in
\* their order, the numbers in decimal.
Marshal(d) ==
  [pods |-> [i \in DOMAIN d.Pods |->
               [namespace |-> d.Pods[i].Namespace,
                containerCount |-> Number(d.Pods[i].ContainerCount),
                readyContainers |-> Number(d.Pods[i].ReadyContainers)]],
   deployments |-> [i \in DOMAIN d.Deployments |->
                      [namespace |-> d.Deployments[i].Namespace,
                       replicas |-> Number(d.Deployments[i].Replicas),
                       readyReplicas |-> Number(d.Deployments[i].ReadyReplicas)]],
   totalContainers |-> Number(d.TotalContainers),
   readyContainers |-> Number(d.ReadyContainers),
   containerPercentage |-> Float(d.ContainerPercentage),
   totalReplicas |-> Number(d.TotalReplicas),
   readyReplicas |-> Number(d.ReadyReplicas),
   replicaPercentage |-> Float(d.ReplicaPercentage)]

\* json.Unmarshal of such an object into a ClusterData.
Unmarshal(j) ==
  [Pods |-> [i \in DOMAIN j.pods |->
               [Namespace |-> j.pods[i].namespace,
                ContainerCount |-> IntOf(j.pods[i].containerCount),
                ReadyContainers |-> IntOf(j.pods[i].readyContainers)]],
   Deployments |-> [i \in DOMAIN j.deployments |->
                      [Namespace |-> j.deployments[i].namespace,
                       Replicas |-> IntOf(j.deployments[i].replicas),
                       ReadyReplicas |-> IntOf(j.deployments[i].readyReplicas)]],
   TotalContainers |-> IntOf(j.totalContainers),
   ReadyContainers |-> IntOf(j.readyContainers),
   ContainerPercentage |-> IntOf(j.containerPercentage),
   TotalReplicas |-> IntOf(j.totalReplicas),
   ReadyReplicas |-> IntOf(j.readyReplicas),
   ReplicaPercentage |-> IntOf(j.replicaPercentage)]

\* ------------------------------------------------- the browser's numbers
\* A number of the browser client is a double: it holds every integer of
\* the model exactly, past int32 too.  It is kept as hi * 2^30 + lo with
\* 0 <= lo < 2^30.
JsBase == BigReplicas
JsOf(v) == [hi |-> v \div JsBase, lo |-> v % JsBase]
JsAdd(x, y) ==
  [hi |-> x.hi + y.hi + (x.lo + y.lo) \div JsBase,
   lo |-> (x.lo + y.lo) % JsBase]
JsPositive(x) == x.hi > 0 \/ (x.hi = 0 /\ x.lo > 0)

\* xs.reduce((sum, x) => sum + x[f], 0)
RECURSIVE JsReduce(_, _, _)
JsReduce(sum, xs, f) ==
  IF xs = <<>> THEN sum ELSE JsReduce(JsAdd(sum, xs[1][f]), Tail(xs), f)

\* total > 0 ? (ready / total) * 100 : 0, in hundredths cut off.  The ready
\* counts of the model are below 2^30 / 10000: over a total of 2^30 or more
\* the hundredths are 0.
JsPercentage(ready, total) ==
  IF ~JsPositive(total) THEN 0
  ELSE IF total.hi = 0 /\ ready.hi = 0 THEN (ready.lo * 10000) \div total.lo
  ELSE 0

\* JSON.parse(event.data): the object with its numbers as doubles (a
\* percentage as its hundredths).
JsonParse(j) ==
  [pods |-> [i \in DOMAIN j.pods |->
               [namespace |-> j.pods[i].namespace,
                containerCount |-> JsOf(IntOf(j.pods[i].containerCount)),
                readyContainers |-> JsOf(IntOf(j.pods[i].readyContainers))]],
   deployments |-> [i \in DOMAIN j.deployments |->
                      [namespace |-> j.deployments[i].namespace,
                       replicas |-> JsOf(IntOf(j.deployments[i].replicas)),
                       readyReplicas |-> JsOf(IntOf(j.deployments[i].readyReplicas))]],
   totalContainers |-> JsOf(IntOf(j.totalContainers)),
   readyContainers |-> JsOf(IntOf(j.readyContainers)),
   containerPercentage |-> IntOf(j.containerPercentage),
   totalReplicas |-> JsOf(IntOf(j.totalReplicas)),
   readyReplicas |-> JsOf(IntOf(j.readyReplicas)),
   replicaPercentage |-> IntOf(j.replicaPercentage)]

\* xs.filter(x => x.namespace === currentNamespace)
InNamespace(xs, currentNamespace) ==
  SelectSeq(xs, LAMBDA x : x.namespace = currentNamespace)

\* websocket.onmessage of static/js/app.js: the filteredData handed to
\* updateDashboard for the message j while currentNamespace is selected.
onmessage(j, currentNamespace) ==
  LET data == JsonParse(j)
      ps == InNamespace(data.pods, currentNamespace)
      ds == InNamespace(data.deployments, currentNamespace)
      tc == JsReduce(JsOf(0), ps, "containerCount")
      rc == JsReduce(JsOf(0), ps, "readyContainers")
      tr == JsReduce(JsOf(0), ds, "replicas")
      rr == JsReduce(JsOf(0), ds, "readyReplicas")
  IN  IF currentNamespace = "" THEN data
      ELSE [data EXCEPT !.pods = ps, !.deployments = ds,
                        !.totalContainers = tc, !.readyContainers = rc,
                        !.containerPercentage = JsPercentage(rc, tc),
                        !.totalReplicas = tr, !.readyReplicas = rr,
                        !.replicaPercentage = JsPercentage(rr, tr)]

\* websocket.onmessage of the client with animated pod cards: the container
\* totals are recomputed, the other aggregates stay those of the message.
onmessageAnimated(j, currentNamespace) ==
  LET data == JsonParse(j)
      ps == InNamespace(data.pods, currentNamespace)
      ds == InNamespace(data.deployments, currentNamespace)
  IN  IF currentNamespace = "" THEN data
      ELSE [data EXCEPT !.pods = ps, !.deployments = ds,
                        !.totalContainers = JsReduce(JsOf(0), ps, "containerCount"),
                        !.readyContainers = JsReduce(JsOf(0), ps, "readyContainers")]

\* The body of an HTTP response: a status text with an error text ("" for
\* none), or a snapshot.
TextBody(status, error) == [snapshot |-> FALSE, status |-> status, error |-> error]
SnapshotBody(d) == [snapshot |-> TRUE, data |-> d]
\* One HTTP response in the step log.
Resp(path, code, body) == Ev(path, "http", code, body)

\* The web process at its first statement after the flags (main is about to
\* create the client, no signal handler is installed, the cluster was not
\* probed), the web process serving (Start launched the workers and
\* listens), and the CLI process at its first statement.
Booting ==
  [main |-> "client", sig |-> "init", probe |-> "none", launched |-> 0,
   exit |-> "none"]
Serving ==
  [main |-> "serving", sig |-> "wait", probe |-> "ok", launched |-> 1,
   exit |-> "none"]
\* The web process has not exited; it has not exited and its listener serves.
Alive == proc.exit = "none"
Running == proc.main = "serving" /\ Alive
CliStart ==
  [pc |-> "client", ns |-> "", pods |-> <<>>, deployments |-> <<>>,
   out |-> <<>>, err |-> "none", exit |-> "none"]

\* What the dashboard shows: nothing yet, an error, or the snapshot of a
\* namespace at a version of the cluster.
NoView == [kind |-> "none", ns |-> "", ver |-> -1]
\* The browser client as the script is loaded (app.js:3-10): no namespace
\* selected, no refresh interval, no socket, push not enabled, no reconnect
\* attempt counted.  `page` is "loading" until DOMContentLoaded; `socket` is
\* the state of the WebSocket last created; `retry` and `first` are the
\* pending reconnect timers and the pending one-second timer; `checked` is
\* the auto-refresh checkbox, `intervals` the refresh intervals running;
\* `status` is the text of the connection status; `dials` (history) counts
\* the sockets created since the page was loaded or a socket last opened.
\* What updatePodsWithAnimations found, before its first call: the pods of
\* the call and of the call before it, and the new, updated and removed ones.
NoTrack ==
  [before |-> <<>>, pods |-> <<>>, newPods |-> <<>>, updatedPods |-> <<>>,
   removedPods |-> <<>>]

UiStart ==
  [page |-> "loading", currentNamespace |-> "", autoRefreshInterval |-> FALSE,
   isWebSocketEnabled |-> FALSE, reconnectAttempts |-> 0,
   socket |-> "none", retry |-> 0, first |-> FALSE,
   checked |-> FALSE, intervals |-> 0, status |-> "", view |-> NoView,
   dials |-> 0, disconnected |-> FALSE,
   previousPods |-> <<>>, track |-> NoTrack]

\* Mutant of getClusterData: the error of a list call is ignored and the
\* zero value is returned as a result.
getClusterDataIgnoreErr(ns) ==
  LET p == GetPods(ns)
      d == GetDeployments(ns)
  IN  [err |-> FALSE,
       data |-> IF p.err \/ d.err THEN NoData ELSE [ver |-> cluster],
       built |-> ClusterDataOf(p.items, d.items),
       calls |-> p.calls \o d.calls]

\* Server.getClusterData: pods, then deployments, then the snapshot built
\* from what the reader returned; the first error ends it.  `data` is the
\* version of the cluster the snapshot shows, `built` its records, totals and
\* percentages.
getClusterData(ns) ==
  LET p == GetPods(ns)
  IN  IF p.err
        THEN [err |-> TRUE, data |-> NoData, calls |-> p.calls]
        ELSE LET d == GetDeployments(ns)
             IN  IF d.err
                   THEN [err |-> TRUE, data |-> NoData,
                         calls |-> p.calls \o d.calls]
                   ELSE [err |-> FALSE, data |-> [ver |-> cluster],
                         built |-> ClusterDataOf(p.items, d.items),
                         calls |-> p.calls \o d.calls]

\* Mutant of Offer: the send blocks never and drops never.
OfferUnbounded(q, d) == Append(q, d)

\* select { case s.broadcast <- clusterData: default: }: the queue after a
\* producer offered d.
Offer(q, d) == IF Len(q) < QueueCap THEN Append(q, d) ELSE q

\* Mutant of Receive: the consumer takes the newest queued snapshot.
ReceiveNewest(q) ==
  [data |-> q[Len(q)], rest |-> SubSeq(q, 1, Len(q) - 1)]

\* clusterData := <-s.broadcast: the oldest queued snapshot and the rest.
Receive(q) == [data |-> Head(q), rest |-> Tail(q)]

\* Mutant of IsChange: every event type triggers a rebuild.
IsChangeAny(t) == TRUE

\* event.Type == watch.Added || watch.Modified || watch.Deleted
IsChange(t) == t \in {"ADDED", "MODIFIED", "DELETED"}

\* The offer of d by producer `who`: the queue and the log after it.
DoOffer(who, d) ==
  LET q2 == Offer(broadcast, d)
  IN  /\ broadcast' = q2
      /\ io' = <<Ev("offer", who,
                    IF q2 # broadcast THEN "queued" ELSE "discarded", d.ver)>>

\* ------------------------------------------------------------- Init
\* The workers at their first statements, nothing queued, nobody connected.
WorkersInit ==
  /\ conn = [c \in Conns |-> "none"]
  /\ broadcast = <<>>
  /\ clients = {}
  /\ clientsMux = [w |-> "none", r |-> 0]
  /\ wpc = [k \in Kinds |-> "connecting"]
  /\ wdata = [k \in Kinds |-> NoData]
  /\ wopen = [k \in Kinds |-> 0]
  /\ tpc = "wait"
  /\ tdata = NoData
  /\ bpc = "recv"
  /\ bdata = NoData
  /\ btodo = {}
  /\ bconn = "none"
  /\ bsent = {}
  /\ bfailed = {}
  /\ hpc = [c \in Conns |-> "idle"]
  /\ hdata = [c \in Conns |-> NoData]
  /\ lastver = [c \in Conns |-> -1]
  /\ lastb = [c \in Conns |-> -1]
  /\ io = <<>>

\* NewServer, and Start up to the two go statements, on an empty cluster.
Init ==
  /\ cluster = 0
  /\ source = "ok"
  /\ pods = <<>>
  /\ deployments = <<>>
  /\ proc = Serving
  /\ cli = CliStart
  /\ ui = UiStart
  /\ WorkersInit

\* The same on any cluster of at most two objects: the lists the data
\* source returns are inputs.
InitLists ==
  /\ cluster = 0
  /\ source = "ok"
  /\ pods \in PodLists
  /\ deployments \in DeploymentLists
  /\ Len(pods) + Len(deployments) <= 2
  /\ proc = Serving
  /\ cli = CliStart
  /\ ui = UiStart
  /\ WorkersInit

\* The CLI process at the start of main, on any cluster of at most two
\* objects, the data source in any of its states.
InitCli ==
  /\ cluster = 0
  /\ source \in SourceStates \cup {"hang"}
  /\ pods \in PodLists
  /\ deployments \in DeploymentLists
  /\ Len(pods) + Len(deployments) <= 2
  /\ proc = Serving
  /\ cli = CliStart
  /\ ui = UiStart
  /\ WorkersInit

\* A deployment of total replicas in the namespace prod and its total
\* single-container pods, ready of them ready.
FleetPods(ready, total) ==
  [i \in 1..total |->
     [namespace |-> "prod", containers |-> 1, statuses |-> <<i <= ready>>]]
FleetDeployment(ready, total) ==
  <<[namespace |-> "prod", replicas |-> total, ready |-> ready]>>

\* The CLI at the start of main on a cluster that runs one deployment, a
\* small one or one of MaxFleet replicas, any number of them ready.
FleetSizes == {MaxFleet \div 10, MaxFleet}
InitFleet ==
  /\ cluster = 0
  /\ source \in SourceStates \cup {"hang"}
  /\ \E total \in FleetSizes, ready \in 0..MaxFleet :
       /\ ready <= total
       /\ pods = FleetPods(ready, total)
       /\ deployments = FleetDeployment(ready, total)
  /\ proc = Serving
  /\ cli = CliStart
  /\ ui = UiStart
  /\ WorkersInit

\* The web process at the start of main: no worker exists yet.  The data
\* source is in any of its states.
InitMain ==
  /\ cluster = 0
  /\ source \in SourceStates \cup {"hang"}
  /\ pods = <<>>
  /\ deployments = <<>>
  /\ proc = Booting
  /\ cli = CliStart
  /\ ui = UiStart
  /\ conn = [c \in Conns |-> "none"]
  /\ broadcast = <<>>
  /\ clients = {}
  /\ clientsMux = [w |-> "none", r |-> 0]
  /\ wpc = [k \in Kinds |-> "unstarted"]
  /\ wdata = [k \in Kinds |-> NoData]
  /\ wopen = [k \in Kinds |-> 0]
  /\ tpc = "unstarted"
  /\ tdata = NoData
  /\ bpc = "unstarted"
  /\ bdata = NoData
  /\ btodo = {}
  /\ bconn = "none"
  /\ bsent = {}
  /\ bfailed = {}
  /\ hpc = [c \in Conns |-> "idle"]
  /\ hdata = [c \in Conns |-> NoData]
  /\ lastver = [c \in Conns |-> -1]
  /\ lastb = [c \in Conns |-> -1]
  /\ io = <<>>

\* ------------------------------------------------------------- environment
\* A pod or deployment of the cluster changes.
ClusterChange ==
  /\ cluster < MaxVersion
  /\ cluster' = cluster + 1
  /\ io' = <<>>
  /\ UNCHANGED <<mainVars, source, pods, deployments, hubVars, connVars,
                 watchVars, tickVars, broadcast>>

\* The data source starts or stops failing a list call.
SourceChange(s) ==
  /\ s # source
  /\ source' = s
  /\ io' = <<>>
  /\ UNCHANGED <<mainVars, cluster, pods, deployments, hubVars, connVars,
                 watchVars, tickVars, broadcast>>

\* The data source stops answering: list calls neither return nor fail.
SourceStall ==
  /\ Answers
  /\ source' = "hang"
  /\ io' = <<>>
  /\ UNCHANGED <<mainVars, cluster, pods, deployments, hubVars, connVars,
                 watchVars, tickVars, broadcast>>

\* The browser behind an open connection stops reading: writes to it block.
PeerStall(c) ==
  /\ conn[c] = "open"
  /\ conn' = [conn EXCEPT ![c] = "stalled"]
  /\ io' = <<>>
  /\ UNCHANGED <<mainVars, envVars, hubVars, hpc, hdata, lastver, lastb, watchVars,
                 tickVars, broadcast>>

\* A stalled browser reads again.
PeerResume(c) ==
  /\ conn[c] = "stalled"
  /\ conn' = [conn EXCEPT ![c] = "open"]
  /\ io' = <<>>
  /\ UNCHANGED <<mainVars, envVars, hubVars, hpc, hdata, lastver, lastb, watchVars,
                 tickVars, broadcast>>

\* The browser disconnects: reads and writes on the connection error.
PeerGone(c) ==
  /\ conn[c] \in {"open", "stalled"}
  /\ conn' = [conn EXCEPT ![c] = "gone"]
  /\ io' = <<>>
  /\ UNCHANGED <<mainVars, envVars, hubVars, hpc, hdata, lastver, lastb, watchVars,
                 tickVars, broadcast>>

\* ------------------------------------------------------------- ticker
\* Mutant of Tick: a failed fetch ends the ticker loop (break for continue),
\* and the outer loop starts over.
TickLeaving ==
  /\ tpc = "wait"
  /\ Answers
  /\ LET r == getClusterData(AllNamespaces)
     IN  /\ io' = <<Ev("tick", "ticker", "", 0)>> \o r.calls
         /\ IF r.err
              THEN tpc' = "launch" /\ UNCHANGED tdata
              ELSE /\ tpc' = "offer"
                   /\ tdata' = r.data
  /\ UNCHANGED <<mainVars, envVars, hubVars, connVars, watchVars, broadcast>>

\* for range ticker.C: a tick; getClusterData; on an error log and continue.
\* The call has no deadline (context.Background()): it returns when the data
\* source answers.
Tick ==
  /\ tpc = "wait"
  /\ Answers
  /\ LET r == getClusterData(AllNamespaces)
     IN  /\ io' = <<Ev("tick", "ticker", "", 0)>> \o r.calls
         /\ IF r.err
              THEN UNCHANGED tickVars
              ELSE /\ tpc' = "offer"
                   /\ tdata' = r.data
  /\ UNCHANGED <<mainVars, envVars, hubVars, connVars, watchVars, broadcast>>

\* watchKubernetesEvents, the body of its outer loop up to the ticker loop:
\* go s.watchPods(ctx), go s.watchDeployments(ctx), time.NewTicker.
TLaunch ==
  /\ tpc = "launch"
  /\ proc.launched < MaxLaunches
  /\ proc' = [proc EXCEPT !.launched = @ + 1]
  /\ wpc' = [k \in Kinds |-> "connecting"]
  /\ tpc' = "wait"
  /\ io' = <<>>
  /\ UNCHANGED <<cli, ui, envVars, hubVars, connVars, wdata, wopen, tdata, broadcast>>

\* The ticker's non-blocking send on s.broadcast.
TickOffer ==
  /\ tpc = "offer"
  /\ DoOffer("ticker", tdata)
  /\ tpc' = "wait"
  /\ tdata' = NoData
  /\ UNCHANGED <<mainVars, envVars, hubVars, connVars, watchVars>>

\* ------------------------------------------------------------- watchers
\* Mutant of WConnect: after a failed Watch call the loop starts over at once.
WConnectEager(k) ==
  /\ wpc[k] = "connecting"
  /\ \E ok \in BOOLEAN :
       /\ wpc' = [wpc EXCEPT ![k] = IF ok THEN "streaming" ELSE "connecting"]
       /\ wopen' = [wopen EXCEPT ![k] = IF ok THEN @ + 1 ELSE @]
       /\ io' = <<Ev("watch", k, IF ok THEN "opened" ELSE "failed", 0)>>
  /\ UNCHANGED <<mainVars, envVars, hubVars, connVars, wdata, tickVars, broadcast>>

\* watchPods / watchDeployments: the Watch call for all namespaces; it opens
\* a session or fails.
WConnect(k) ==
  /\ wpc[k] = "connecting"
  /\ \E ok \in BOOLEAN :
       /\ wpc' = [wpc EXCEPT ![k] = IF ok THEN "streaming" ELSE "backoff"]
       /\ wopen' = [wopen EXCEPT ![k] = IF ok THEN @ + 1 ELSE @]
       /\ io' = <<Ev("watch", k, IF ok THEN "opened" ELSE "failed", 0)>>
  /\ UNCHANGED <<mainVars, envVars, hubVars, connVars, wdata, tickVars, broadcast>>

\* time.Sleep(5 * time.Second); continue
WBackoff(k) ==
  /\ wpc[k] = "backoff"
  /\ wpc' = [wpc EXCEPT ![k] = "connecting"]
  /\ io' = <<>>
  /\ UNCHANGED <<mainVars, envVars, hubVars, connVars, wdata, wopen, tickVars,
                 broadcast>>

\* One event of type t from watcher.ResultChan(); p is the version of the
\* object the event carries.
WEvent(k, t, p) ==
  /\ wpc[k] = "streaming"
  /\ IsChange(t) => Answers
  /\ IF IsChange(t)
       THEN LET r == getClusterData(AllNamespaces)
            IN  /\ io' = <<Ev("event", k, t, p)>> \o r.calls
                /\ IF r.err
                     THEN UNCHANGED <<wpc, wdata>>
                     ELSE /\ wpc' = [wpc EXCEPT ![k] = "offer"]
                          /\ wdata' = [wdata EXCEPT ![k] = r.data]
       ELSE /\ io' = <<Ev("event", k, t, p)>>
            /\ UNCHANGED <<wpc, wdata>>
  /\ UNCHANGED <<mainVars, envVars, hubVars, connVars, wopen, tickVars, broadcast>>

\* The watcher's non-blocking send on s.broadcast.
WOffer(k) ==
  /\ wpc[k] = "offer"
  /\ DoOffer(k, wdata[k])
  /\ wpc' = [wpc EXCEPT ![k] = "streaming"]
  /\ wdata' = [wdata EXCEPT ![k] = NoData]
  /\ UNCHANGED <<mainVars, envVars, hubVars, connVars, wopen, tickVars>>

\* Mutant of WClosed: the watcher returns when its session ends.
WClosedReturn(k) ==
  /\ wpc[k] = "streaming"
  /\ wpc' = [wpc EXCEPT ![k] = "returned"]
  /\ wopen' = [wopen EXCEPT ![k] = @ - 1]
  /\ io' = <<>>
  /\ UNCHANGED <<mainVars, envVars, hubVars, connVars, wdata, tickVars, broadcast>>

\* Mutant of WClosed: the session is left as it is when its stream ends.
WClosedUnstopped(k) ==
  /\ wpc[k] = "streaming"
  /\ wpc' = [wpc EXCEPT ![k] = "pause"]
  /\ io' = <<>>
  /\ UNCHANGED <<mainVars, envVars, hubVars, connVars, wdata, wopen, tickVars,
                 broadcast>>

\* The result channel is closed: the range ends, watcher.Stop().
WClosed(k) ==
  /\ wpc[k] = "streaming"
  /\ wpc' = [wpc EXCEPT ![k] = "pause"]
  /\ wopen' = [wopen EXCEPT ![k] = @ - 1]
  /\ io' = <<>>
  /\ UNCHANGED <<mainVars, envVars, hubVars, connVars, wdata, tickVars, broadcast>>

\* time.Sleep(1 * time.Second), and the loop starts over.
WPause(k) ==
  /\ wpc[k] = "pause"
  /\ wpc' = [wpc EXCEPT ![k] = "connecting"]
  /\ io' = <<Ev("reopen", k, "", 0)>>
  /\ UNCHANGED <<mainVars, envVars, hubVars, connVars, wdata, wopen, tickVars,
                 broadcast>>

\* ------------------------------------------------------------- broadcast consumer
\* case clusterData := <-s.broadcast
BRecv ==
  /\ bpc = "recv"
  /\ broadcast # <<>>
  /\ LET r == Receive(broadcast)
     IN  /\ bdata' = r.data
         /\ broadcast' = r.rest
         /\ io' = <<>>
  /\ bpc' = "rlock"
  /\ UNCHANGED <<mainVars, envVars, clients, clientsMux, btodo, bconn, bsent, bfailed,
                 connVars, watchVars, tickVars>>

\* s.clientsMux.RLock(), and the range over s.clients begins.
BRLock ==
  /\ bpc = "rlock"
  /\ clientsMux.w = "none"
  /\ clientsMux' = [clientsMux EXCEPT !.r = 1]
  /\ btodo' = clients
  /\ bsent' = {}
  /\ bfailed' = {}
  /\ bpc' = "range"
  /\ io' = <<>>
  /\ UNCHANGED <<mainVars, envVars, clients, bdata, bconn, connVars, watchVars,
                 tickVars, broadcast>>

\* for conn := range s.clients: the next connection, in any order.
BRange ==
  /\ bpc = "range"
  /\ \E c \in btodo \cap clients :
       /\ bconn' = c
       /\ btodo' = btodo \ {c}
  /\ bpc' = "write"
  /\ io' = <<>>
  /\ UNCHANGED <<mainVars, envVars, clients, clientsMux, bdata, bsent, bfailed,
                 connVars, watchVars, tickVars, broadcast>>

\* err := conn.WriteJSON(clusterData); on an error log it and conn.Close().
\* The write has no deadline: it returns when the peer took the frame or the
\* connection failed, and blocks while the peer is stalled.
BWrite ==
  /\ bpc = "write"
  /\ conn[bconn] # "stalled"
  /\ IF conn[bconn] = "open"
       THEN /\ lastver' = [lastver EXCEPT ![bconn] = bdata.ver]
            /\ lastb' = [lastb EXCEPT ![bconn] = bdata.ver]
            /\ io' = <<>>
            /\ bsent' = bsent \cup {bconn}
            /\ bpc' = "range"
            /\ UNCHANGED <<conn, bfailed>>
       ELSE /\ conn' = [conn EXCEPT ![bconn] = "closed"]
            /\ bfailed' = bfailed \cup {bconn}
            /\ io' = <<>>
            /\ bpc' = "delete"
            /\ UNCHANGED <<lastver, lastb, bsent>>
  /\ UNCHANGED <<mainVars, envVars, clients, clientsMux, bdata, btodo, bconn,
                 hpc, hdata, watchVars, tickVars, broadcast>>

\* delete(s.clients, conn), under the read lock taken by BRLock.
BDelete ==
  /\ bpc = "delete"
  /\ clients' = clients \ {bconn}
  /\ bpc' = "range"
  /\ io' = <<>>
  /\ UNCHANGED <<mainVars, envVars, clientsMux, bdata, btodo, bconn, bsent, bfailed,
                 connVars, watchVars, tickVars, broadcast>>

\* The range is exhausted: s.clientsMux.RUnlock(), back to the select.
BRUnlock ==
  /\ bpc = "range"
  /\ btodo \cap clients = {}
  /\ clientsMux' = [clientsMux EXCEPT !.r = 0]
  /\ bpc' = "recv"
  /\ bdata' = NoData
  /\ btodo' = {}
  /\ bconn' = "none"
  /\ bsent' = {}
  /\ bfailed' = {}
  /\ io' = <<>>
  /\ UNCHANGED <<mainVars, envVars, clients, connVars, watchVars, tickVars, broadcast>>

\* ------------------------------------------------------------- connection handlers
\* s.upgrader.Upgrade: a browser asks for /ws; on an error the handler returns.
HUpgrade(c) ==
  /\ Running
  /\ hpc[c] = "idle"
  /\ conn[c] = "none"
  /\ \E ok \in BOOLEAN :
       IF ok
         THEN /\ conn' = [conn EXCEPT ![c] = "open"]
              /\ hpc' = [hpc EXCEPT ![c] = "lock"]
              /\ io' = <<>>
         ELSE /\ io' = <<>>
              /\ UNCHANGED <<conn, hpc>>
  /\ UNCHANGED <<mainVars, envVars, hubVars, hdata, lastver, lastb, watchVars, tickVars,
                 broadcast>>

\* s.clientsMux.Lock() before the registration.
HLock(c) ==
  /\ hpc[c] = "lock"
  /\ clientsMux = [w |-> "none", r |-> 0]
  /\ clientsMux' = [clientsMux EXCEPT !.w = c]
  /\ hpc' = [hpc EXCEPT ![c] = "add"]
  /\ io' = <<>>
  /\ UNCHANGED <<mainVars, envVars, clients, bpc, bdata, btodo, bconn, bsent, bfailed,
                 conn, hdata, lastver, lastb, watchVars, tickVars, broadcast>>

\* s.clients[conn] = true; s.clientsMux.Unlock()
HAdd(c) ==
  /\ hpc[c] = "add"
  /\ clients' = clients \cup {c}
  /\ clientsMux' = [clientsMux EXCEPT !.w = "none"]
  /\ hpc' = [hpc EXCEPT ![c] = "len"]
  /\ io' = <<>>
  /\ UNCHANGED <<mainVars, envVars, bpc, bdata, btodo, bconn, bsent, bfailed,
                 conn, hdata, lastver, lastb, watchVars, tickVars, broadcast>>

\* Mutant of HFetch: the handler returns when its fetch fails.
HFetchLeaving(c) ==
  /\ hpc[c] = "len"
  /\ Answers
  /\ LET r == getClusterData(AllNamespaces)
     IN  /\ io' = <<Ev("initial", c, "", 0)>> \o r.calls
         /\ IF r.err
              THEN /\ hpc' = [hpc EXCEPT ![c] = "dlock"]
                   /\ UNCHANGED hdata
              ELSE /\ hpc' = [hpc EXCEPT ![c] = "write"]
                   /\ hdata' = [hdata EXCEPT ![c] = r.data]
  /\ UNCHANGED <<mainVars, envVars, hubVars, conn, lastver, lastb, watchVars, tickVars,
                 broadcast>>

\* log.Printf(..., len(s.clients)): the size is read with no lock held; then
\* getClusterData(context.Background(), "").
HFetch(c) ==
  /\ hpc[c] = "len"
  /\ Answers
  /\ LET r == getClusterData(AllNamespaces)
     IN  /\ io' = <<Ev("initial", c, "", 0)>> \o r.calls
         /\ IF r.err
              THEN /\ hpc' = [hpc EXCEPT ![c] = "read"]
                   /\ UNCHANGED hdata
              ELSE /\ hpc' = [hpc EXCEPT ![c] = "write"]
                   /\ hdata' = [hdata EXCEPT ![c] = r.data]
  /\ UNCHANGED <<mainVars, envVars, hubVars, conn, lastver, lastb, watchVars, tickVars,
                 broadcast>>

\* conn.WriteJSON(clusterData): the initial snapshot; its error is dropped.
HWrite(c) ==
  /\ hpc[c] = "write"
  /\ conn[c] # "stalled"
  /\ IF conn[c] = "open"
       THEN /\ lastver' = [lastver EXCEPT ![c] = hdata[c].ver]
            /\ io' = <<>>
       ELSE /\ io' = <<>>
            /\ UNCHANGED lastver
  /\ hpc' = [hpc EXCEPT ![c] = "read"]
  /\ hdata' = [hdata EXCEPT ![c] = NoData]
  /\ UNCHANGED <<mainVars, envVars, hubVars, conn, lastb, watchVars, tickVars, broadcast>>

\* conn.ReadMessage() returns an error: the loop is left, the deferred
\* function starts.
HReadErr(c) ==
  /\ hpc[c] = "read"
  /\ conn[c] \in {"gone", "closed"}
  /\ hpc' = [hpc EXCEPT ![c] = "dlock"]
  /\ io' = <<>>
  /\ UNCHANGED <<mainVars, envVars, hubVars, conn, hdata, lastver, lastb, watchVars,
                 tickVars, broadcast>>

\* deferred: s.clientsMux.Lock()
HDLock(c) ==
  /\ hpc[c] = "dlock"
  /\ clientsMux = [w |-> "none", r |-> 0]
  /\ clientsMux' = [clientsMux EXCEPT !.w = c]
  /\ hpc' = [hpc EXCEPT ![c] = "del"]
  /\ io' = <<>>
  /\ UNCHANGED <<mainVars, envVars, clients, bpc, bdata, btodo, bconn, bsent, bfailed,
                 conn, hdata, lastver, lastb, watchVars, tickVars, broadcast>>

\* deferred: delete(s.clients, conn); s.clientsMux.Unlock(); conn.Close().
\* The handler is over; the handle stands for a new connection from here on.
HDel(c) ==
  /\ hpc[c] = "del"
  /\ clients' = clients \ {c}
  /\ clientsMux' = [clientsMux EXCEPT !.w = "none"]
  /\ conn' = [conn EXCEPT ![c] = "none"]
  /\ hpc' = [hpc EXCEPT ![c] = "idle"]
  /\ lastver' = [lastver EXCEPT ![c] = -1]
  /\ lastb' = [lastb EXCEPT ![c] = -1]
  /\ io' = <<>>
  /\ UNCHANGED <<mainVars, envVars, bpc, bdata, btodo, bconn, bsent, bfailed, hdata,
                 watchVars, tickVars, broadcast>>

\* ------------------------------------------------------------- HTTP handlers
\* The web process runs: main is in http.ListenAndServe and nothing exited it.
\* What a request handler leaves alone: everything but the response.
RequestFrame ==
  UNCHANGED <<mainVars, envVars, hubVars, connVars, watchVars, tickVars,
              broadcast>>

\* Mutant of ApiCluster: the namespace of the request is not read, the
\* answer is built for all namespaces.
ApiClusterUnscoped(ns) ==
  /\ Running
  /\ Answers
  /\ LET p == GetPods(AllNamespaces)
         d == GetDeployments(AllNamespaces)
     IN  io' = IF p.err \/ d.err
                 THEN <<Resp("GET /api/cluster", "500", TextBody("", "Failed")),
                        Ev("list", "pods", ns, 0)>>
                 ELSE <<Resp("GET /api/cluster", "200",
                             SnapshotBody(ClusterDataOf(p.items, d.items))),
                        Ev("list", "pods", ns, 0),
                        Ev("list", "deployments", ns, 0)>>
  /\ RequestFrame

\* Mutant of ApiCluster: the snapshot of a request is published as well.
ApiClusterPublish(ns) ==
  /\ Running
  /\ Answers
  /\ LET p == GetPods(ns)
         d == GetDeployments(ns)
     IN  /\ io' = <<Resp("GET /api/cluster", "200",
                         SnapshotBody(ClusterDataOf(p.items, d.items)))>>
                   \o p.calls \o d.calls
         /\ broadcast' = Offer(broadcast, [ver |-> cluster])
  /\ UNCHANGED <<mainVars, envVars, hubVars, connVars, watchVars, tickVars>>

\* handleClusterData: GET /api/cluster?namespace=ns.  The pod list call, then
\* the deployment list call, each answered with 500 and its error text when
\* it errors; else the snapshot built from the two lists.  The calls use the
\* request's context: they return when the data source answers.
ApiCluster(ns) ==
  /\ Running
  /\ Answers
  /\ LET p == GetPods(ns)
     IN  IF p.err
           THEN io' = <<Resp("GET /api/cluster", "500",
                             TextBody("", "Failed to get pods"))>> \o p.calls
           ELSE LET d == GetDeployments(ns)
                IN  IF d.err
                      THEN io' = <<Resp("GET /api/cluster", "500",
                                        TextBody("", "Failed to get deployments"))>>
                                 \o p.calls \o d.calls
                      ELSE io' = <<Resp("GET /api/cluster", "200",
                                        SnapshotBody(ClusterDataOf(p.items,
                                                                   d.items)))>>
                                 \o p.calls \o d.calls
  /\ RequestFrame

\* Mutant of Health: the health check probes the data source.
HealthProbing ==
  /\ Running
  /\ LET p == GetPods(AllNamespaces)
     IN  io' = <<Resp("GET /health",
                      IF p.err \/ ~Answers THEN "503" ELSE "200",
                      TextBody("healthy", ""))>> \o p.calls
  /\ RequestFrame

\* handleHealth: GET /health.
Health ==
  /\ Running
  /\ io' = <<Resp("GET /health", "200", TextBody("healthy", ""))>>
  /\ RequestFrame

\* Mutant of Ready: the probe has no deadline and waits for the data source.
ReadyNoDeadline ==
  /\ Running
  /\ Answers
  /\ LET p == GetPods(AllNamespaces)
     IN  io' = <<Resp("GET /ready",
                      IF p.err THEN "503" ELSE "200",
                      IF p.err THEN TextBody("not ready", "failed to list pods")
                               ELSE TextBody("ready", ""))>> \o p.calls
  /\ RequestFrame

\* handleReady: GET /ready.  The pod list call for all namespaces under a
\* context that is done after 5 seconds: the call returns an error when the
\* data source errors and when it has not answered by then.
Ready ==
  /\ Running
  /\ LET p == GetPods(AllNamespaces)
         failed == p.err \/ ~Answers
     IN  io' = <<Resp("GET /ready",
                      IF failed THEN "503" ELSE "200",
                      IF failed THEN TextBody("not ready", "failed to list pods")
                                ELSE TextBody("ready", ""))>> \o p.calls
  /\ RequestFrame

\* ------------------------------------------------------------- CLI
\* One line of the standard output: what it is and the two counts it shows
\* (for a row the blocks and the empty cells drawn).
Line(kind, a, b) == [kind |-> kind, a |-> a, b |-> b]
\* strings.Repeat with a negative count: the program panics instead of
\* printing the line.
Panic == Line("panic", 0, 0)

\* One row of DisplayPods or DisplayDeployments: strings.Repeat(blockChar,
\* ready) and strings.Repeat(emptyChar, total - ready).
Row(kind, ready, total) ==
  IF ready < 0 \/ total - ready < 0 THEN Panic
  ELSE Line(kind, ready, total - ready)

\* ---- float64 arithmetic of the bar: a positive float64 is the 53 bits of
\* its significand, m = <<17 bits, 18 bits, 18 bits>> (the first bit is 1),
\* and the exponent exp of the first bit; every operation rounds its exact
\* result to the nearest float64, ties to even.  A wide number is a list of
\* limbs of 18 bits, the most significant first.
\* The limb q of w counted from the least significant one (0 beyond w).
At(w, q) == IF q < Len(w) THEN w[Len(w) - q] ELSE 0

\* The len <= 18 bits of w from bit lo upwards, as a number.
Slice(w, lo, len) ==
  LET q == lo \div 18
      r == lo % 18
      low == At(w, q) \div 2^r
  IN  IF len <= 18 - r THEN low % 2^len
      ELSE low + (At(w, q + 1) % 2^(len - (18 - r))) * 2^(18 - r)

\* The number of bits of 0 < n < 2^18.
Bits(n) == CHOOSE k \in 1..18 : 2^(k - 1) <= n /\ n < 2^k

\* The limbs of 0 <= x < 2^31, and w without the zero limbs it starts with.
Limbs18(x) == IF x < 2^18 THEN <<x>> ELSE <<x \div 2^18, x % 2^18>>
Strip(w) ==
  IF \A i \in DOMAIN w : w[i] = 0 THEN <<>>
  ELSE SubSeq(w, CHOOSE i \in DOMAIN w :
                   w[i] # 0 /\ \A j \in 1..(i - 1) : w[j] = 0, Len(w))

\* The float64 nearest to w * 2^scale for a wide number w of 54 bits or
\* more that starts with a limb other than 0; sticky says that the exact
\* value is above w * 2^scale.
Round64(w, scale, sticky) ==
  LET k == Bits(w[1]) + 18 * (Len(w) - 1) - 53
      a == Slice(w, k + 36, 17)
      b == Slice(w, k + 18, 18)
      c == Slice(w, k, 18)
      more == sticky \/ \E q \in 0..((k - 1) \div 18) :
                          /\ k - 1 - 18 * q > 0
                          /\ Slice(w, 18 * q,
                                   IF k - 1 - 18 * q < 18 THEN k - 1 - 18 * q
                                   ELSE 18) # 0
      up == Slice(w, k - 1, 1) = 1 /\ (more \/ c % 2 = 1)
      e == scale + k + 52
  IN  IF ~up THEN [m |-> <<a, b, c>>, exp |-> e]
      ELSE IF c + 1 < 2^18 THEN [m |-> <<a, b, c + 1>>, exp |-> e]
      ELSE IF b + 1 < 2^18 THEN [m |-> <<a, b + 1, 0>>, exp |-> e]
      ELSE IF a + 1 < 2^17 THEN [m |-> <<a + 1, 0, 0>>, exp |-> e]
      ELSE [m |-> <<2^16, 0, 0>>, exp |-> e + 1]

\* The next n <= 18 bits q of rem / den (rem < den) and what is left; no
\* intermediate value exceeds den.
RECURSIVE Steps(_, _, _, _)
Steps(q, rem, den, n) ==
  IF n = 0 \/ q < 0 THEN [q |-> q, rem |-> rem]
  ELSE IF rem >= den - rem THEN Steps(2 * q + 1, rem - (den - rem), den, n - 1)
  ELSE Steps(2 * q, rem + rem, den, n - 1)

\* float64(n) / float64(d) for integers n, d > 0 (each is exact as float64).
Quotient64(n, d) ==
  LET s1 == Steps(0, n % d, d, 18)
      s2 == Steps(0, s1.rem, d, 18)
      s3 == Steps(0, s2.rem, d, 18)
      s4 == Steps(0, s3.rem, d, 18)
      s5 == Steps(0, s4.rem, d, 18)
      s6 == Steps(0, s5.rem, d, 18)
  IN  Round64(Strip(Limbs18(n \div d) \o <<s1.q, s2.q, s3.q, s4.q, s5.q, s6.q>>),
              -108, s6.rem # 0)

\* x * float64(c) for an integer 2 <= c < 128.
Times64(x, c) ==
  LET p3 == x.m[3] * c
      p2 == x.m[2] * c + p3 \div 2^18
      p1 == x.m[1] * c + p2 \div 2^18
  IN  Round64(Strip(Limbs18(p1) \o <<p2 % 2^18, p3 % 2^18>>), x.exp - 52, FALSE)

\* x / float64(c) for an integer 0 < c < 128.
Over64(x, c) ==
  LET d2 == (x.m[1] % c) * 2^18 + x.m[2]
      d3 == (d2 % c) * 2^18 + x.m[3]
      d4 == (d3 % c) * 2^18
  IN  Round64(Strip(<<x.m[1] \div c, d2 \div c, d3 \div c, d4 \div c>>),
              x.exp - 70, d4 % c # 0)

\* int(x): the integer part of a float64 below 2^31.
Int64(x) ==
  IF x.exp < 0 THEN 0
  ELSE IF x.exp <= 16 THEN x.m[1] \div 2^(16 - x.exp)
  ELSE x.m[1] * 2^(x.exp - 16) + x.m[2] \div 2^(34 - x.exp)

\* percentage := float64(ready) / float64(total) * 100 when total > 0, and
\* filledWidth := int(float64(barWidth) * percentage / 100) with barWidth
\* 50 (a negative ready gives the negative of the width of -ready).
filledWidth(ready, total) ==
  IF total <= 0 \/ ready = 0 THEN 0
  ELSE LET r == IF ready < 0 THEN 0 - ready ELSE ready
           percentage == Times64(Quotient64(r, total), 100)
           w == Int64(Over64(Times64(percentage, 50), 100))
       IN  IF ready < 0 THEN 0 - w ELSE w

\* displayContainerSummary / displayReplicaSummary: the title, then the line
\* with the counts, the percentage and the bar of barWidth = 50 cells.
Summary(kind, ready, total) ==
  LET filled == filledWidth(ready, total)
  IN  <<Line(kind \o " title", 0, 0),
        IF filled < 0 \/ 50 - filled < 0 THEN Panic
        ELSE [kind |-> kind, a |-> filled, b |-> 50 - filled,
              ready |-> ready, total |-> total,
              pct |-> Percentage(ready, total)]>>

\* Visualizer.DisplayPods: what it sets out to print.
DisplayPods(ps) ==
  IF ps = <<>> THEN <<Line("no pods", 0, 0)>>
  ELSE <<Line("pods overview", Len(ps), 0), Line("dashes", 40, 0)>>
       \o [i \in DOMAIN ps |->
             Row("pod", ps[i].ReadyContainers, ps[i].ContainerCount)]
       \o <<Line("blank", 0, 0)>>
       \o Summary("containers", SumInt(ps, "ReadyContainers"),
                  SumInt(ps, "ContainerCount"))

\* Visualizer.DisplayDeployments: what it sets out to print.
DisplayDeployments(ds) ==
  IF ds = <<>> THEN <<Line("no deployments", 0, 0)>>
  ELSE <<Line("deployments overview", Len(ds), 0), Line("dashes", 40, 0)>>
       \o [i \in DOMAIN ds |->
             Row("deployment", ds[i].ReadyReplicas, ds[i].Replicas)]
       \o <<Line("blank", 0, 0)>>
       \o Summary("replicas", Sum32(0, ds, "ReadyReplicas"),
                  Sum32(0, ds, "Replicas"))

\* The lines that reach the output: those before the first panic.
Printed(lines) ==
  LET at == {i \in DOMAIN lines : lines[i] = Panic}
  IN  IF at = {} THEN lines
      ELSE SubSeq(lines, 1, (CHOOSE i \in at : \A j \in at : i <= j) - 1)

\* A step of the CLI's main: the process goes on as c.
CliStep(c) ==
  /\ cli' = c
  /\ UNCHANGED <<proc, ui, envVars, hubVars, connVars, watchVars, tickVars, broadcast>>

\* log.Fatalf in the CLI's main after the call named by what.
CliFatal(what) == [cli EXCEPT !.pc = "done", !.err = what, !.exit = "1"]

\* k8s.NewClient(*kubeconfig) after the flags were parsed (ns is the
\* -namespace flag); on an error log.Fatalf.
CliClient ==
  /\ cli.pc = "client"
  /\ \E ok \in BOOLEAN, ns \in Namespaces :
       CliStep(IF ok THEN [cli EXCEPT !.pc = "pods", !.ns = ns]
                     ELSE CliFatal("client"))
  /\ io' = <<>>

\* Mutant of CliPods: the pods are displayed as soon as they are listed.
CliPodsDisplayed ==
  /\ cli.pc = "pods"
  /\ Answers
  /\ LET p == GetPods(cli.ns)
     IN  /\ CliStep(IF p.err THEN CliFatal("pods")
                    ELSE [cli EXCEPT !.pc = "deployments", !.pods = p.items,
                                     !.out = Printed(DisplayPods(p.items))])
         /\ io' = p.calls

\* client.GetPods(ctx, *namespace) under the background context; on an error
\* log.Fatalf.
CliPods ==
  /\ cli.pc = "pods"
  /\ Answers
  /\ LET p == GetPods(cli.ns)
     IN  /\ CliStep(IF p.err THEN CliFatal("pods")
                    ELSE [cli EXCEPT !.pc = "deployments", !.pods = p.items])
         /\ io' = p.calls

\* client.GetDeployments(ctx, *namespace); on an error log.Fatalf.
CliDeployments ==
  /\ cli.pc = "deployments"
  /\ Answers
  /\ LET d == GetDeployments(cli.ns)
     IN  /\ CliStep(IF d.err THEN CliFatal("deployments")
                    ELSE [cli EXCEPT !.pc = "print", !.deployments = d.items])
         /\ io' = d.calls

\* The visualization: the two title lines, DisplayPods, a blank line and
\* DisplayDeployments; main returns (exit code 0) unless a row or a bar
\* panics (exit code 2, the lines before it printed).
CliPrint ==
  /\ cli.pc = "print"
  /\ LET lines == <<Line("title", 0, 0), Line("rule", 0, 0)>>
                  \o DisplayPods(cli.pods)
                  \o <<Line("blank", 0, 0)>>
                  \o DisplayDeployments(cli.deployments)
         out == Printed(lines)
     IN  CliStep([cli EXCEPT !.pc = "done", !.out = out,
                             !.exit = IF out = lines THEN "0" ELSE "2"])
  /\ io' = <<>>

\* ------------------------------------------------------- browser client
\* const MAX_RECONNECT_ATTEMPTS = 5
MAX_RECONNECT_ATTEMPTS == 5

\* A handler of the page at its first statement: the client as it is and
\* nothing logged; the handler's calls take it from there.
Handling == [ui |-> ui, io |-> <<>>]

\* A handler returned: the client is as the handler left it, the step log
\* holds its requests, the server and the cluster are as they were.
Handled(h) ==
  /\ ui' = h.ui
  /\ io' = h.io
  /\ UNCHANGED <<proc, cli, envVars, hubVars, connVars, watchVars, tickVars,
                 broadcast>>

\* What the dashboard shows after fetch(`/api/cluster?namespace=ns`) settled:
\* the snapshot of ns when the answer is 200, the error when the request
\* fails or is answered with 500; while the data source does not answer the
\* request stays pending.
Fetched(view, ns) ==
  IF ~Running THEN [kind |-> "error", ns |-> ns, ver |-> -1]
  ELSE IF ~Answers THEN view
  ELSE IF GetPods(ns).err \/ GetDeployments(ns).err
         THEN [kind |-> "error", ns |-> ns, ver |-> -1]
         ELSE [kind |-> "data", ns |-> ns, ver |-> cluster]

\* loadData(): GET /api/cluster for currentNamespace, then updateDashboard
\* or showError.
loadData(h) ==
  [ui |-> [h.ui EXCEPT !.view = Fetched(h.ui.view, h.ui.currentNamespace)],
   io |-> h.io \o <<Ev("fetch", "browser", h.ui.currentNamespace, 0)>>]

\* toggleAutoRefresh(): with the checkbox checked a new 30 s interval of
\* loadData is set and kept in autoRefreshInterval; unchecked, the interval
\* kept there is cleared.
toggleAutoRefresh(h) ==
  LET u == h.ui
  IN  [h EXCEPT !.ui =
         IF u.checked
           THEN [u EXCEPT !.autoRefreshInterval = TRUE,
                          !.intervals = u.intervals + 1]
         ELSE IF u.autoRefreshInterval
           THEN [u EXCEPT !.autoRefreshInterval = FALSE,
                          !.intervals = u.intervals - 1]
         ELSE u]

\* fallbackToPolling(): the status becomes Polling, the data is loaded, and
\* the auto-refresh checkbox is checked (and its interval set) if it was not.
fallbackToPolling(h) ==
  LET a == loadData([h EXCEPT !.ui.isWebSocketEnabled = FALSE,
                              !.ui.status = "Polling"])
  IN  IF ~a.ui.checked
        THEN toggleAutoRefresh([a EXCEPT !.ui.checked = TRUE])
        ELSE a

\* connectWebSocket(): a new WebSocket for /ws, connecting; when the
\* constructor throws, fallbackToPolling().
connectWebSocket(h, throws) ==
  IF throws THEN fallbackToPolling(h)
  ELSE [h EXCEPT !.ui.socket = "connecting", !.ui.dials = @ + 1,
                 !.io = @ \o <<Ev("connect", "browser", "", 0)>>]

\* The auto-refresh checkbox as the page comes with it: checked or not.
AutoRefreshBox == BOOLEAN

\* The DOMContentLoaded handler: the default namespace of the page's meta
\* tag is selected, connectWebSocket(), and the one-second timer is set.
\* The page is there with its auto-refresh checkbox.
DOMContentLoaded ==
  /\ ui.page = "loading"
  /\ \E ns \in Namespaces, throws \in BOOLEAN, box \in AutoRefreshBox :
       Handled(connectWebSocket(
                 [Handling EXCEPT !.ui.page = "loaded",
                                  !.ui.checked = box,
                                  !.ui.currentNamespace = ns,
                                  !.ui.first = TRUE], throws))

\* The one-second timer of DOMContentLoaded: loadData() unless push is
\* enabled by then.
FirstTimer ==
  /\ ui.first
  /\ LET h == [Handling EXCEPT !.ui.first = FALSE]
     IN  Handled(IF ~ui.isWebSocketEnabled THEN loadData(h) ELSE h)

\* The change handler of the namespace select.
NamespaceChange(ns) ==
  /\ ui.page = "loaded"
  /\ ns # ui.currentNamespace
  /\ LET h == [Handling EXCEPT !.ui.currentNamespace = ns]
     IN  Handled(IF ~ui.isWebSocketEnabled THEN loadData(h) ELSE h)

\* refreshData(): the refresh button, Ctrl+R or F5.
refreshData ==
  /\ ui.page = "loaded"
  /\ Handled(loadData(Handling))

\* The user checks or unchecks the auto-refresh checkbox.
AutoRefreshChange ==
  /\ ui.page = "loaded"
  /\ Handled(toggleAutoRefresh([Handling EXCEPT !.ui.checked = ~ui.checked]))

\* A refresh interval fires: loadData().
AutoRefresh ==
  /\ ui.intervals > 0
  /\ Handled(loadData(Handling))

\* websocket.onopen: push is enabled, the attempts start over, and a checked
\* auto-refresh is unchecked and stopped.
onopen ==
  /\ ui.socket = "connecting"
  /\ Running
  /\ LET h == [Handling EXCEPT !.ui.socket = "open",
                               !.ui.isWebSocketEnabled = TRUE,
                               !.ui.reconnectAttempts = 0,
                               !.ui.dials = 0,
                               !.ui.status = "Connected"]
     IN  Handled(IF ui.checked
                   THEN toggleAutoRefresh([h EXCEPT !.ui.checked = FALSE])
                   ELSE h)

\* websocket.onmessage: the pushed snapshot, filtered for currentNamespace,
\* is shown.
OnMessage ==
  /\ ui.socket = "open"
  /\ Running
  /\ Handled([Handling EXCEPT !.ui.view =
                [kind |-> "data", ns |-> ui.currentNamespace, ver |-> cluster]])

\* websocket.onerror: the connection failed; its close event follows.
onerror ==
  /\ ui.socket \in {"connecting", "open"}
  /\ Handled([Handling EXCEPT !.ui.socket = "failed",
                              !.ui.isWebSocketEnabled = FALSE,
                              !.ui.status = "Error"])

\* Mutant of OnClosed: a close is answered by another attempt, whatever the
\* count.
OnClosedAgain(h) ==
  LET u == [h.ui EXCEPT !.socket = "closed", !.isWebSocketEnabled = FALSE,
                        !.status = "Disconnected"]
  IN  [h EXCEPT !.ui = [u EXCEPT !.retry = 1]]

\* Mutant of OnClosed: one more attempt is made at MAX_RECONNECT_ATTEMPTS.
OnClosedOnceMore(h) ==
  LET u == [h.ui EXCEPT !.socket = "closed", !.isWebSocketEnabled = FALSE,
                        !.status = "Disconnected"]
  IN  IF u.reconnectAttempts <= MAX_RECONNECT_ATTEMPTS
        THEN [h EXCEPT !.ui = [u EXCEPT !.reconnectAttempts = @ + 1,
                                        !.retry = @ + 1]]
        ELSE fallbackToPolling([h EXCEPT !.ui = u])

\* The body of websocket.onclose: with fewer than MAX_RECONNECT_ATTEMPTS
\* attempts counted, one more is counted and connectWebSocket is set to run
\* after RECONNECT_DELAY * reconnectAttempts; else fallbackToPolling().
OnClosed(h) ==
  LET u == [h.ui EXCEPT !.socket = "closed", !.isWebSocketEnabled = FALSE,
                        !.status = "Disconnected"]
  IN  IF u.reconnectAttempts < MAX_RECONNECT_ATTEMPTS
        THEN [h EXCEPT !.ui = [u EXCEPT !.reconnectAttempts = @ + 1,
                                        !.retry = @ + 1]]
        ELSE fallbackToPolling([h EXCEPT !.ui = u])

\* websocket.onclose of a socket that is not open: the attempt failed, or
\* the socket was closed by disconnectWebSocket.
onclose ==
  /\ ui.socket \in {"connecting", "failed", "closing"}
  /\ Handled(OnClosed(Handling))

\* websocket.onclose of an open socket: the server or the network closed it.
oncloseOpen ==
  /\ ui.socket = "open"
  /\ Handled(OnClosed(Handling))

\* The reconnect timer of onclose fires: connectWebSocket().
ReconnectTimer ==
  /\ ui.retry > 0
  /\ \E throws \in BOOLEAN :
       Handled(connectWebSocket([Handling EXCEPT !.ui.retry = @ - 1], throws))

\* disconnectWebSocket(): the socket is closed (its close event follows),
\* push is disabled and the attempts are counted as used up.
disconnectWebSocket ==
  /\ ui.page = "loaded"
  /\ Handled([Handling EXCEPT
                !.ui.socket = IF @ \in {"connecting", "open", "failed"}
                                THEN "closing" ELSE @,
                !.ui.isWebSocketEnabled = FALSE,
                !.ui.reconnectAttempts = MAX_RECONNECT_ATTEMPTS,
                !.ui.disconnected = TRUE])

\* ---- the dashboard with animations (the second client)
\* A Map is the list of its entries <<key, value>> in insertion order.
MapHas(m, k) == \E i \in DOMAIN m : m[i][1] = k
MapGet(m, k) == m[CHOOSE i \in DOMAIN m : m[i][1] = k][2]
\* m.set(k, v): the value of an entry of the key is replaced where it is,
\* else the entry is appended.
MapSet(m, k, v) ==
  IF MapHas(m, k)
    THEN [i \in DOMAIN m |-> IF m[i][1] = k THEN <<k, v>> ELSE m[i]]
    ELSE Append(m, <<k, v>>)
\* pods.forEach(pod => currentPods.set(pod.name, pod)) from the Map m on.
RECURSIVE MapOfPods(_, _)
MapOfPods(m, ps) ==
  IF ps = <<>> THEN m
  ELSE MapOfPods(MapSet(m, ps[1].name, ps[1]), Tail(ps))

\* hasSignificantChange(prevPod, currentPod)
hasSignificantChange(prevPod, currentPod) ==
  \/ prevPod.status # currentPod.status
  \/ prevPod.readyContainers # currentPod.readyContainers
  \/ prevPod.containerCount # currentPod.containerCount

\* The values of the entries of m.
MapValues(m) == [i \in DOMAIN m |-> m[i][2]]

\* updatePodsWithAnimations(pods): with no pods previousPods is cleared and
\* nothing is compared; else the pods are put in a Map by pod.name, a pod
\* of it is new when previousPods has no entry of its name and updated when
\* the entry differs significantly, the pods of previousPods whose name the
\* Map lacks are removed, and previousPods becomes the Map.  (What is done
\* to the cards of the page is left out.)
updatePodsWithAnimations(h, ps) ==
  LET previousPods == h.ui.previousPods
      currentPods == MapOfPods(<<>>, ps)
      before == h.ui.track.pods
  IN  IF ps = <<>>
        THEN [h EXCEPT !.ui.previousPods = <<>>,
                       !.ui.track = [NoTrack EXCEPT !.before = before]]
      ELSE [h EXCEPT
              !.ui.previousPods = currentPods,
              !.ui.track =
                [before |-> before,
                 pods |-> ps,
                 newPods |->
                   MapValues(SelectSeq(currentPods,
                                       LAMBDA e : ~MapHas(previousPods, e[1]))),
                 updatedPods |->
                   MapValues(SelectSeq(currentPods,
                     LAMBDA e : /\ MapHas(previousPods, e[1])
                                /\ hasSignificantChange(
                                      MapGet(previousPods, e[1]), e[2]))),
                 removedPods |->
                   MapValues(SelectSeq(previousPods,
                                       LAMBDA e : ~MapHas(currentPods, e[1])))]]

\* The pods of an update as the browser has them: of one container, running
\* and ready or pending.
PodNames == {"web", "api"}
UpdatePod(ns, name, running) ==
  [name |-> name, namespace |-> ns,
   status |-> IF running THEN "Running" ELSE "Pending",
   readyContainers |-> IF running THEN 1 ELSE 0, containerCount |-> 1]
UpdatePods ==
  {UpdatePod(ns, name, running) :
     ns \in ItemNamespaces, name \in PodNames, running \in BOOLEAN}
\* The updates: lists of pods, no two of the same namespace and name.
Updates ==
  {ps \in Lists(UpdatePods) :
     \A i, j \in DOMAIN ps :
       i # j => <<ps[i].namespace, ps[i].name>>
                 # <<ps[j].namespace, ps[j].name>>}

\* updateDashboard(data) of a loaded page: the pods of the data go to
\* updatePodsWithAnimations.
updateDashboard ==
  /\ ui.page = "loaded"
  /\ \E ps \in Updates : Handled(updatePodsWithAnimations(Handling, ps))

\* ------------------------------------------------------------- web main
\* A step of main or of the signal goroutine that leaves the workers alone:
\* the process goes on as p.
Proceed(p) ==
  /\ proc' = p
  /\ io' = <<>>
  /\ UNCHANGED <<cli, ui, envVars, hubVars, connVars, watchVars, tickVars, broadcast>>

\* The position of a worker after the process has gone: a worker that was
\* never started stays so, every other one is dead.
Gone(pc) == IF pc \in {"unstarted", "idle"} THEN pc ELSE "dead"

\* os.Exit(code), log.Fatalf and the death by a signal: the process is gone
\* as p with that exit code, every goroutine with it, and its sockets are
\* closed.
Exit(p, code) ==
  /\ proc' = [p EXCEPT !.exit = code]
  /\ wpc' = [k \in Kinds |-> Gone(wpc[k])]
  /\ wopen' = [k \in Kinds |-> 0]
  /\ tpc' = Gone(tpc)
  /\ bpc' = Gone(bpc)
  /\ hpc' = [c \in Conns |-> Gone(hpc[c])]
  /\ conn' = [c \in Conns |->
                IF conn[c] \in {"open", "stalled"} THEN "closed" ELSE conn[c]]
  /\ io' = <<Ev("exit", "main", code, 0)>>
  /\ UNCHANGED <<cli, ui, envVars, broadcast, clients, clientsMux, wdata, tdata,
                 bdata, btodo, bconn, bsent, bfailed, hdata, lastver, lastb>>

\* k8s.NewClient(*kubeconfig): on an error log.Fatalf.  Then NewServer, and
\* the go statement of the signal goroutine.
MainClient ==
  /\ Alive
  /\ proc.main = "client"
  /\ \E ok \in BOOLEAN :
       IF ok THEN Proceed([proc EXCEPT !.main = "probe"])
             ELSE Exit(proc, "1")

\* Mutant of MainProbe: a failed probe is logged and main goes on.
MainProbeLogged ==
  /\ Alive
  /\ proc.main = "probe"
  /\ Answers
  /\ LET p == GetPods(AllNamespaces)
     IN  Proceed([proc EXCEPT !.main = "start",
                              !.probe = IF p.err THEN "failed" ELSE "ok"])

\* The test of the connection: client.GetPods(ctx, "") under the background
\* context (it returns when the data source answers); on an error log.Fatalf.
MainProbe ==
  /\ Alive
  /\ proc.main = "probe"
  /\ Answers
  /\ LET p == GetPods(AllNamespaces)
     IN  IF p.err
           THEN Exit([proc EXCEPT !.probe = "failed"], "1")
           ELSE Proceed([proc EXCEPT !.main = "start", !.probe = "ok"])

\* server.Start up to ListenAndServe: the templates are parsed (on an error
\* Start returns it and main calls log.Fatalf), the routes are set, and the
\* go statements start the broadcast consumer and the watcher goroutine
\* (which starts the two watchers and then is the ticker: TLaunch).
MainStart ==
  /\ Alive
  /\ proc.main = "start"
  /\ \E ok \in BOOLEAN :
       IF ok
         THEN /\ proc' = [proc EXCEPT !.main = "listen"]
              /\ bpc' = "recv"
              /\ tpc' = "launch"
              /\ io' = <<>>
              /\ UNCHANGED <<cli, ui, envVars, clients, clientsMux, bdata, btodo,
                             bconn, bsent, bfailed, connVars, watchVars, tdata,
                             broadcast>>
         ELSE Exit(proc, "1")

\* http.ListenAndServe: the listener serves, or the call returns an error
\* (the port is taken) and main calls log.Fatalf.
MainListen ==
  /\ Alive
  /\ proc.main = "listen"
  /\ \E ok \in BOOLEAN :
       IF ok THEN Proceed([proc EXCEPT !.main = "serving"])
             ELSE Exit(proc, "1")

\* The signal goroutine: signal.Notify(sigChan, SIGINT, SIGTERM).
SigNotify ==
  /\ Alive
  /\ proc.main # "client"
  /\ proc.sig = "init"
  /\ Proceed([proc EXCEPT !.sig = "wait"])

\* SIGINT or SIGTERM reaches the process: it is queued in sigChan, or, before
\* signal.Notify, the process dies of it.
Signal ==
  /\ Alive
  /\ proc.sig \in {"init", "wait"}
  /\ IF proc.sig = "wait"
       THEN Proceed([proc EXCEPT !.sig = "got"])
       ELSE Exit(proc, "signal")

\* Mutant of SigExit: the signal is logged and the goroutine returns.
SigExitLogged ==
  /\ Alive
  /\ proc.sig = "got"
  /\ Proceed([proc EXCEPT !.sig = "done"])

\* The signal goroutine: <-sigChan; log.Println; os.Exit(0).
SigExit ==
  /\ Alive
  /\ proc.sig = "got"
  /\ Exit(proc, "0")

\* ------------------------------------------------------------- specifications
Environment ==
  \/ ClusterChange
  \/ \E s \in SourceStates : SourceChange(s)

Peers(S) ==
  \/ \E c \in S : PeerStall(c)
  \/ \E c \in S : PeerResume(c)
  \/ \E c \in S : PeerGone(c)

Ticker ==
  \/ Tick
  \/ TickOffer

\* The version of the object an event carries: the cluster's current one, or
\* the one before it (the event was queued before the last change).
Payloads == {cluster - 1, cluster} \cap (0..MaxVersion)

Watchers(K) ==
  \/ \E k \in K : WConnect(k)
  \/ \E k \in K : WBackoff(k)
  \/ \E k \in K, t \in EventTypes, p \in Payloads : WEvent(k, t, p)
  \/ \E k \in K : WOffer(k)
  \/ \E k \in K : WClosed(k)
  \/ \E k \in K : WPause(k)

\* The consumer while no connection is registered: the range is empty.
Drain ==
  \/ BRecv
  \/ BRLock
  \/ BRUnlock

Broadcaster ==
  \/ Drain
  \/ BRange
  \/ BWrite
  \/ BDelete

Handlers(S) ==
  \/ \E c \in S : HUpgrade(c)
  \/ \E c \in S : HLock(c)
  \/ \E c \in S : HAdd(c)
  \/ \E c \in S : HFetch(c)
  \/ \E c \in S : HWrite(c)
  \/ \E c \in S : HReadErr(c)
  \/ \E c \in S : HDLock(c)
  \/ \E c \in S : HDel(c)

\* The whole server.
Next ==
  \/ Environment
  \/ Peers(Conns)
  \/ Ticker
  \/ Watchers(Kinds)
  \/ Broadcaster
  \/ Handlers(Conns)
Spec == Init /\ [][Next]_vars

\* The hub with two browsers: the ticker is the producer, the cluster is
\* quiet and the data source healthy.
NextHub == Peers(Conns) \/ Ticker \/ Broadcaster \/ Handlers(Conns)
SpecHub == Init /\ [][NextHub]_vars

\* One browser fed by the ticker while the cluster changes and the data
\* source fails and recovers.
NextFeed ==
  \/ Environment
  \/ Peers({"c1"})
  \/ Ticker
  \/ Broadcaster
  \/ Handlers({"c1"})
SpecFeed == Init /\ [][NextFeed]_vars

\* One browser of a quiet cluster, fed by the ticker and both watchers while
\* the data source fails and recovers.
NextRebuild ==
  \/ \E s \in SourceStates : SourceChange(s)
  \/ PeerGone("c1")
  \/ Ticker
  \/ Watchers(Kinds)
  \/ Broadcaster
  \/ Handlers({"c1"})
SpecRebuild == Init /\ [][NextRebuild]_vars

\* The request handlers beside one browser and the ticker, while the data
\* source fails, stops answering and recovers.
Http ==
  \/ \E ns \in Namespaces : ApiCluster(ns)
  \/ Health
  \/ Ready
NextHttp ==
  \/ \E s \in SourceStates : SourceChange(s)
  \/ SourceStall
  \/ PeerGone("c1")
  \/ Ticker
  \/ Broadcaster
  \/ Handlers({"c1"})
  \/ Http
SpecHttp == Init /\ [][NextHttp]_vars

\* The web process from the start of main: main, the signal goroutine, and
\* once started the ticker, the pod watcher, the consumer, one browser and
\* the health check.
Main ==
  \/ MainClient
  \/ MainProbe
  \/ MainStart
  \/ MainListen
Signals ==
  \/ SigNotify
  \/ Signal
  \/ SigExit
NextMain ==
  \/ Main
  \/ Signals
  \/ PeerGone("c1")
  \/ TLaunch
  \/ Ticker
  \/ Watchers({"pods"})
  \/ Broadcaster
  \/ Handlers({"c1"})
  \/ Health
SpecMain == InitMain /\ [][NextMain]_vars
\* The signal goroutine is scheduled.
FairMain == SpecMain /\ WF_vars(SigExit)

\* The CLI process from the start of main, while the data source fails,
\* stops answering and recovers.
NextCli ==
  \/ \E s \in SourceStates : SourceChange(s)
  \/ SourceStall
  \/ CliClient
  \/ CliPods
  \/ CliDeployments
  \/ CliPrint
SpecCli == InitCli /\ [][NextCli]_vars
\* The CLI process on the one-deployment clusters.
SpecFleet == InitFleet /\ [][NextCli]_vars

\* The snapshot builders on every cluster of the bounds, beside requests for
\* /api/cluster.
NextBuild == \E ns \in Namespaces : ApiCluster(ns)
SpecBuild == InitLists /\ [][NextBuild]_vars

\* The producers: watchers and ticker feed the queue, the consumer drains it,
\* no browser is connected.
\* The browser client with its user and its timers, beside a server that
\* serves while the cluster changes and the data source fails and recovers.
\* A socket that is not open settles (it opens, fails or closes), the page
\* gets loaded and the timers fire.
Browser ==
  \/ DOMContentLoaded \/ FirstTimer \/ ReconnectTimer \/ AutoRefresh
  \/ onopen \/ OnMessage \/ onerror \/ onclose \/ oncloseOpen
User ==
  \/ \E ns \in Namespaces : NamespaceChange(ns)
  \/ refreshData \/ AutoRefreshChange \/ disconnectWebSocket
NextClient ==
  \/ Browser \/ User
  \/ ClusterChange
  \/ \E s \in SourceStates : SourceChange(s)
SpecClient == Init /\ [][NextClient]_vars
\* The dashboard with animations: the page is loaded and gets its updates.
NextTrack == DOMContentLoaded \/ updateDashboard
SpecTrack == Init /\ [][NextTrack]_vars
Settle == ui.socket # "open" /\ (onopen \/ onerror \/ onclose)
FairClient ==
  /\ SpecClient
  /\ WF_vars(DOMContentLoaded) /\ WF_vars(Settle)
  /\ WF_vars(ReconnectTimer) /\ WF_vars(FirstTimer)

NextWatch == Environment \/ Ticker \/ Watchers(Kinds) \/ Drain
SpecWatch == Init /\ [][NextWatch]_vars

\* The two watchers alone on a changing cluster: nothing receives what they
\* offer, the queue fills and their later offers are dropped.
NextSessions == Environment \/ Watchers(Kinds)
SpecSessions == Init /\ [][NextSessions]_vars

\* Every runnable goroutine is scheduled again: weak fairness of each worker's
\* own steps.  Nothing is assumed of the environment (cluster, data source,
\* browsers, watch streams).
HandlerSteps(c) ==
  \/ HLock(c)
  \/ HAdd(c)
  \/ HFetch(c)
  \/ HWrite(c)
  \/ HReadErr(c)
  \/ HDLock(c)
  \/ HDel(c)

WatcherSteps(k) ==
  \/ WConnect(k)
  \/ WBackoff(k)
  \/ WOffer(k)
  \/ WPause(k)

\* Two browsers connect and stay connected while the cluster changes; a
\* browser may stop reading for good.  No write fails, so the consumer never
\* drops a connection and no handler leaves its read loop.
Connects(S) ==
  \/ \E c \in S : HUpgrade(c)
  \/ \E c \in S : HLock(c)
  \/ \E c \in S : HAdd(c)
  \/ \E c \in S : HFetch(c)
  \/ \E c \in S : HWrite(c)

Publish ==
  \/ Drain
  \/ BRange
  \/ BWrite

NextLive ==
  \/ ClusterChange
  \/ \E c \in Conns : PeerStall(c)
  \/ Ticker
  \/ Publish
  \/ Connects(Conns)
FairHub ==
  /\ Init
  /\ [][NextLive]_vars
  /\ WF_vars(Ticker)
  /\ WF_vars(Publish)
  /\ \A c \in Conns : WF_vars(HandlerSteps(c))

\* Two browsers come and go, and a browser may stop reading for good, under
\* fair scheduling.  The mutex lets no waiter starve: strong fairness of the
\* steps that wait for it.
NextLife ==
  \/ \E c \in Conns : PeerStall(c)
  \/ \E c \in Conns : PeerGone(c)
  \/ Ticker
  \/ Broadcaster
  \/ Handlers(Conns)
FairLife ==
  /\ Init
  /\ [][NextLife]_vars
  /\ WF_vars(Ticker)
  /\ SF_vars(Broadcaster)
  /\ \A c \in Conns : SF_vars(HandlerSteps(c))

\* The producers of a quiet cluster, and the same under fair scheduling.
NextQuiet ==
  \/ \E s \in SourceStates : SourceChange(s)
  \/ Ticker
  \/ Watchers(Kinds)
  \/ Drain
SpecQuiet == Init /\ [][NextQuiet]_vars
FairWatch ==
  /\ SpecQuiet
  /\ WF_vars(Ticker)
  /\ WF_vars(Drain)
  /\ \A k \in Kinds : WF_vars(WatcherSteps(k))

\* ------------------------------------------------------------- claims
\* Every connection of this publish was tried: the range is exhausted and the
\* read lock not yet released.
PublishDone == bpc = "range" /\ btodo = {}

\* C1: publishing never stalls on one subscriber: every registered subscriber
\* the publish has not reached yet is eventually reached, whatever the state
\* of the other subscribers' connections.
C1_NeverStalls ==
  \A c \in Conns : (c \in btodo) ~> (c \notin btodo)

\* C2: a subscriber that a publish cannot deliver to is dropped.  A subscriber
\* that is full (it takes no more data: the write to it does not complete) is
\* eventually out of s.clients.
C2_FullDropped ==
  \A c \in Conns :
    (bpc = "write" /\ bconn = c /\ conn[c] = "stalled") ~> (c \notin clients)

\* C2, the part on write errors: when a publish to N subscribers is done,
\* every subscriber whose write returned an error is out of s.clients with
\* its connection closed, and every other subscriber of the publish was sent
\* the snapshot.
C2_FailedDropped ==
  PublishDone =>
    /\ \A c \in bfailed : c \notin clients /\ conn[c] = "closed"
    /\ clients = bsent
    /\ bsent \cap bfailed = {}

\* C2, the part on write errors, happens: a publish to two subscribers is
\* done, one write failed and the other subscriber was sent the snapshot.
C2_Witness ==
  /\ PublishDone
  /\ bfailed # {}
  /\ bsent # {}

\* The workers that touch s.clients.
Workers == Conns \cup {"hub"}
\* Worker w is at a statement that adds to or removes from s.clients.
Mutating(w) ==
  IF w = "hub" THEN bpc = "delete" ELSE hpc[w] \in {"add", "del"}
\* Worker w is at a statement that iterates s.clients or reads its size.
Reading(w) ==
  IF w = "hub" THEN bpc = "range" ELSE hpc[w] = "len"

\* C3: s.clients is mutated only by the holder of the write lock, and no
\* worker reads, iterates or mutates it while another worker mutates it.
C3_RaceFree ==
  /\ \A w \in Workers : Mutating(w) => clientsMux.w = w
  /\ \A w1, w2 \in Workers :
       (w1 # w2 /\ Mutating(w1)) => ~(Reading(w2) \/ Mutating(w2))

\* C4 (original): per subscriber, a snapshot fetched earlier is never
\* delivered after one fetched later.  The cluster version only grows, so a
\* delivery of a lower version after a higher one is such a delivery.
C4_FetchOrder ==
  [][\A c \in Conns :
       (lastver[c] # -1 /\ lastver'[c] # -1) => lastver'[c] >= lastver[c]]_vars

\* C4 (amended): per subscriber, the broadcast snapshots of one producer are
\* delivered in the order that producer fetched and queued them.
C4_QueueOrder ==
  [][\A c \in Conns :
       (lastb[c] # -1 /\ lastb'[c] # -1) => lastb'[c] >= lastb[c]]_vars

\* C4 witness: a subscriber was sent a broadcast of the changed cluster after
\* the cluster changed.
C4_Witness ==
  \E c \in Conns : lastb[c] = 1 /\ c \in clients

\* The last step was the offer of a snapshot that the full queue discarded.
Discarded ==
  /\ io # <<>>
  /\ io[1].op = "offer"
  /\ io[1].arg = "discarded"

\* The step is the offer of producer w (the ticker or a watcher).
OfferStep(w) ==
  IF w = "ticker"
    THEN tpc = "offer" /\ tpc' = "wait"
    ELSE wpc[w] = "offer" /\ wpc'[w] = "streaming"
Offered(w) == IF w = "ticker" THEN tdata ELSE wdata[w]
Producers == Kinds \cup {"ticker"}

\* C5: s.broadcast never holds more than its capacity and no producer ever
\* blocks on it: an offer is always possible, on a full queue it changes
\* nothing in the queue, and the producer goes on (the ticker to its next
\* tick, the watcher to its stream).
C5_BoundedNonBlocking ==
  [][/\ Len(broadcast') <= QueueCap
     /\ tpc = "offer" => ENABLED TickOffer
     /\ \A k \in Kinds : wpc[k] = "offer" => ENABLED WOffer(k)
     /\ \A w \in Producers :
          OfferStep(w) =>
            broadcast' = IF Len(broadcast) = QueueCap
                           THEN broadcast
                           ELSE Append(broadcast, Offered(w))]_vars

\* C5 witness: the queue is full and the last step was an offer it discarded.
C5_Witness ==
  /\ Discarded
  /\ Len(broadcast) = QueueCap

\* C6: of snapshots offered faster than the consumer drains them the latest
\* is eventually delivered.  The consumer delivers only what the queue holds,
\* so the queue never discards a snapshot newer than all those it keeps.
C6_LatestDelivered ==
  Discarded =>
    \E i \in DOMAIN broadcast : broadcast[i].ver >= io[1].n

\* C7: a watcher has no terminal state, after a closed session or a failed
\* connect it comes back to the Watch call, and the Watch call is made.
C7_Reconnects ==
  /\ [](\A k \in Kinds :
          wpc[k] \in {"connecting", "backoff", "streaming", "offer", "pause"})
  /\ \A k \in Kinds : (wpc[k] \in {"pause", "backoff"}) ~> (wpc[k] = "connecting")
  /\ \A k \in Kinds : (wpc[k] = "connecting") ~> (wpc[k] \in {"streaming", "backoff"})

\* C7 witness: the pause after a closed session is over and the pod watcher
\* is back at the Watch call.
C7_Witness ==
  /\ wpc["pods"] = "connecting"
  /\ io = <<Ev("reopen", "pods", "", 0)>>

\* The last step was an event of a watch session; the list calls it made.
LastEvent == io # <<>> /\ io[1].op = "event"
Calls == SubSeq(io, 2, Len(io))
ListPods == Ev("list", "pods", "", 0)
ListDeployments == Ev("list", "deployments", "", 0)
ChangeTypes == {"ADDED", "MODIFIED", "DELETED"}
Unchanging(k) == wpc[k] = "streaming" /\ wdata[k] = NoData

\* C8 (original): every Added, Modified or Deleted event triggers one re-fetch
\* for all namespaces and then one offer of the snapshot built from the
\* reader; any other event triggers neither and the watcher keeps streaming.
C8_EveryChangeOffers ==
  LastEvent =>
    IF io[1].arg \in ChangeTypes
      THEN /\ Calls = <<ListPods, ListDeployments>>
           /\ wpc[io[1].who] = "offer"
           /\ wdata[io[1].who] = [ver |-> cluster]
      ELSE Calls = <<>> /\ Unchanging(io[1].who)

\* C8 (amended): every Added, Modified or Deleted event triggers one re-fetch
\* for all namespaces; when both list calls succeed the snapshot built from
\* the reader (not from the event) is offered once, when one errors nothing
\* is offered; any other event triggers no call and no offer.  After its
\* offer the watcher is back at the stream.
C8_ChangeRefetches ==
  /\ LastEvent =>
       IF io[1].arg \in ChangeTypes
         THEN CASE source = "ok" ->
                     /\ Calls = <<ListPods, ListDeployments>>
                     /\ wpc[io[1].who] = "offer"
                     /\ wdata[io[1].who] = [ver |-> cluster]
                [] source = "podsErr" ->
                     Calls = <<ListPods>> /\ Unchanging(io[1].who)
                [] source = "depsErr" ->
                     /\ Calls = <<ListPods, ListDeployments>>
                     /\ Unchanging(io[1].who)
         ELSE Calls = <<>> /\ Unchanging(io[1].who)
  /\ \A k \in Kinds :
       /\ wpc[k] = "offer" => wdata[k] # NoData
       /\ (io # <<>> /\ io[1].op = "offer" /\ io[1].who = k) =>
            Len(io) = 1 /\ Unchanging(k)

\* C8 witness: a change event whose object is older than the cluster was
\* answered by a re-fetch, and the snapshot of the current cluster is about
\* to be offered.
C8_Witness ==
  /\ LastEvent
  /\ io[1].arg \in ChangeTypes
  /\ io[1].n # cluster
  /\ wpc[io[1].who] = "offer"

\* C9: while the data source answers and a subscriber stays connected, the
\* subscriber is again and again sent a snapshot of the cluster as it is,
\* whether or not a watch session delivers events.
C9_LivenessFloor ==
  \A c \in Conns :
    <>[](c \in clients /\ conn[c] = "open") => []<>(lastver[c] = cluster)

\* The last step was a rebuild of a background worker (ticker or watcher)
\* that failed on a list call.
FetchFailed ==
  /\ io # <<>>
  /\ io[1].op \in {"tick", "event"}
  /\ io[Len(io)].op = "list"
  /\ \/ io[Len(io)].who = "pods" /\ source = "podsErr"
     \/ io[Len(io)].who = "deployments" /\ source = "depsErr"

\* C10: a rebuild of a background worker that fails on a list call offers
\* nothing, removes no subscriber and sends nothing, and the worker goes on:
\* the ticker waits for its next tick, the watcher stays on its session.
C10_FailedRebuild ==
  [][FetchFailed' =>
       /\ UNCHANGED <<broadcast, clients, conn, lastver, lastb, bsent, hpc>>
       /\ io'[1].op = "tick" => tpc' = "wait" /\ tdata' = NoData
       /\ io'[1].op = "event" =>
            wpc'[io'[1].who] = "streaming" /\ wdata'[io'[1].who] = NoData]_vars

\* C10 witness: the deployment list call failed in a watcher's rebuild while
\* a subscriber is registered and snapshots are queued.
C10_Witness ==
  /\ FetchFailed
  /\ io[1].op = "event"
  /\ source = "depsErr"
  /\ clients # {}
  /\ broadcast # <<>>

\* The last step answered a request for `path`; its status code and body.
LastRequest(path) == io # <<>> /\ io[1].op = path
Code == io[1].arg
Body == io[1].n

\* C11: a GET /api/cluster request leaves the subscriber set, the broadcast
\* queue, the consumer and every connection as they were, whether it succeeds
\* or fails; when a list call errors the answer is 500 with an error text and
\* no snapshot, else it is 200 with the snapshot.
C11_RequestFrame ==
  [][LastRequest("GET /api/cluster")' =>
       /\ UNCHANGED <<clients, broadcast, hubVars, connVars>>
       /\ IF source' \in {"podsErr", "depsErr"}
            THEN Code' = "500" /\ ~Body'.snapshot /\ Body'.error # ""
            ELSE Code' = "200" /\ Body'.snapshot]_vars

\* C11 witness: a request failed on the deployment list call while a
\* subscriber is registered and a snapshot is queued.
C11_Witness ==
  /\ LastRequest("GET /api/cluster")
  /\ Code = "500"
  /\ source = "depsErr"
  /\ clients # {}
  /\ broadcast # <<>>

\* C12: a connection is in s.clients only between its upgrade and the end of
\* its handler, the consumer writes only to registered connections, and a
\* connection that disconnected or was closed on an error is eventually out
\* of s.clients and closed.
C12_Lifecycle ==
  /\ [](\A c \in Conns : c \in clients => conn[c] # "none")
  /\ [](bpc = "write" => bconn \in clients)
  /\ \A c \in Conns :
       (conn[c] \in {"gone", "closed"}) ~>
         (c \notin clients /\ conn[c] \in {"closed", "none"})

\* The snapshots the two builders make of the cluster as it is: that of
\* getClusterData, and the body of a GET /api/cluster answered with 200.
Built == getClusterData(AllNamespaces).built
Answered == LastRequest("GET /api/cluster") /\ Code = "200"
Snapshots == {Built} \cup (IF Answered THEN {Body.data} ELSE {})

Scoped(ns) ==
  JsonParse(Marshal(ClusterDataOf(GetPods(ns).items, GetDeployments(ns).items)))

\* C22: for every namespace ns, what the client makes of a pushed snapshot
\* (built for all namespaces) while ns is selected - the pods and
\* deployments of ns, totals and percentages recomputed - has the same
\* records and the same aggregate numbers as the server's build scoped to
\* ns on the same cluster, in both clients.
C22_FilterIsScopedBuild ==
  \A ns \in ItemNamespaces :
    /\ onmessage(Marshal(Built), ns) = Scoped(ns)
    /\ onmessageAnimated(Marshal(Built), ns) = Scoped(ns)
\* The scope of the answered request, and the number of entries of a list
\* of container statuses that are flagged ready.
AnsweredScope == io[2].arg
ReadyFlags(st) == Cardinality({j \in DOMAIN st : st[j]})

\* Snapshot d has one record per pod of ps and per deployment of ds, at the
\* same index, with the object's namespace and counts.
RecordsOf(d, ps, ds) ==
  /\ Len(d.Pods) = Len(ps)
  /\ Len(d.Deployments) = Len(ds)
  /\ \A i \in DOMAIN ps :
       /\ d.Pods[i].Namespace = ps[i].namespace
       /\ d.Pods[i].ContainerCount = ps[i].containers
       /\ d.Pods[i].ReadyContainers = ReadyFlags(ps[i].statuses)
  /\ \A i \in DOMAIN ds :
       /\ d.Deployments[i].Namespace = ds[i].namespace
       /\ d.Deployments[i].Replicas = ds[i].replicas
       /\ d.Deployments[i].ReadyReplicas = ds[i].ready

C26_RecordsAsReceived ==
  /\ RecordsOf(Built, pods, deployments)
  /\ Answered =>
       RecordsOf(Body.data, Listed(pods, AnsweredScope),
                 Listed(deployments, AnsweredScope))
C26_Witness ==
  /\ Answered
  /\ AnsweredScope = "prod"
  /\ Len(Body.data.Pods) = 2
  /\ Len(pods) = 2
  /\ pods[1].statuses = <<TRUE, FALSE>>
  /\ pods[2].statuses = <<>>
  /\ pods[2].containers = 1
  /\ Len(Body.data.Deployments) = 0

\* C13: for every list of pods and deployments the data source can return,
\* both percentages of the snapshot are within [0, 100] (held in hundredths
\* of a percent: within 0..10000).
C13_PercentagesInRange ==
  \A d \in Snapshots :
    /\ d.ContainerPercentage \in 0..10000
    /\ d.ReplicaPercentage \in 0..10000

\* C14: when the total container count is 0 the container percentage is
\* exactly 0, and when the total replica count is 0 the replica percentage
\* is exactly 0 (no division is made), empty lists included.
C14_ZeroTotals ==
  \A d \in Snapshots :
    /\ d.TotalContainers = 0 => d.ContainerPercentage = 0
    /\ d.TotalReplicas = 0 => d.ReplicaPercentage = 0
C14_Witness ==
  /\ Answered
  /\ pods # <<>> /\ Body.data.TotalContainers = 0
  /\ deployments # <<>> /\ Body.data.TotalReplicas = 0
  /\ Body.data.ContainerPercentage = 0 /\ Body.data.ReplicaPercentage = 0

\* total is the sum of the first n values of f, a sequence of numbers that
\* are not negative (worked out by taking them off so that no number of the
\* working is larger than total).
RECURSIVE IsSumOf(_, _, _)
IsSumOf(total, f, n) ==
  IF n = 0 THEN total = 0
  ELSE total >= f[n] /\ IsSumOf(total - f[n], f, n - 1)
\* What the data source holds, read from its own lists: the containers and
\* the ready container statuses of each pod, the desired and the ready
\* replicas of each deployment.
SourceContainers == [i \in 1..Len(pods) |-> pods[i].containers]
SourceReadyContainers ==
  [i \in 1..Len(pods) |->
     Cardinality({k \in DOMAIN pods[i].statuses : pods[i].statuses[k]})]
SourceReplicas == [i \in 1..Len(deployments) |-> deployments[i].replicas]
SourceReadyReplicas == [i \in 1..Len(deployments) |-> deployments[i].ready]
\* The pods 2/2 and 1/2 with one deployment 1/3.
ExamplePods ==
  <<[namespace |-> "prod", containers |-> 2, statuses |-> <<TRUE, TRUE>>],
    [namespace |-> "prod", containers |-> 2, statuses |-> <<TRUE, FALSE>>]>>
ExampleDeployments == <<[namespace |-> "prod", replicas |-> 3, ready |-> 1]>>

\* C15: the totals of a snapshot are the sums of the container count and the
\* ready-container count over all pods and of the desired and ready replicas
\* over all deployments, and each percentage is ready/total*100 of those
\* sums (in hundredths of a percent, 0 for a total of 0); pods 2/2 and 1/2
\* with one deployment 1/3 give 4, 3, 75%, 3, 1, 33.33%.
C15_Aggregates ==
  \A d \in Snapshots :
    /\ IsSumOf(d.TotalContainers, SourceContainers, Len(pods))
    /\ IsSumOf(d.ReadyContainers, SourceReadyContainers, Len(pods))
    /\ IsSumOf(d.TotalReplicas, SourceReplicas, Len(deployments))
    /\ IsSumOf(d.ReadyReplicas, SourceReadyReplicas, Len(deployments))
    /\ d.TotalContainers > 0 =>
         d.ContainerPercentage = (d.ReadyContainers * 10000) \div d.TotalContainers
    /\ d.TotalReplicas > 0 =>
         d.ReplicaPercentage = (d.ReadyReplicas * 10000) \div d.TotalReplicas
    /\ pods = ExamplePods /\ deployments = ExampleDeployments =>
         /\ d.TotalContainers = 4 /\ d.ReadyContainers = 3
         /\ d.ContainerPercentage = 7500
         /\ d.TotalReplicas = 3 /\ d.ReadyReplicas = 1
         /\ d.ReplicaPercentage = 3333

\* C16: GET /ready answers 200 exactly when the pod list call for all
\* namespaces succeeds before the probe's deadline, and 503 with an error
\* body otherwise; it makes that one call, and it can answer in every state
\* of the running process, whether the data source errors or is silent.
C16_ReadyProbe ==
  /\ Running => ENABLED Ready
  /\ LastRequest("GET /ready") =>
       /\ Code = "200" <=> source \in {"ok", "depsErr"}
       /\ Code # "200" => Code = "503" /\ ~Body.snapshot /\ Body.error # ""
       /\ Tail(io) = <<Ev("list", "pods", AllNamespaces, 0)>>
C16_Witness ==
  LastRequest("GET /ready") /\ source = "hang" /\ Code = "503"

\* C17: GET /health answers 200 in every state of the running process,
\* whatever the data source does, however many subscribers are registered
\* and however full the broadcast queue is, and it makes no call to the data
\* source.
C17_HealthAlways ==
  /\ Running => ENABLED Health
  /\ LastRequest("GET /health") => Code = "200" /\ Len(io) = 1
C17_Witness ==
  /\ LastRequest("GET /health") /\ Code = "200"
  /\ source = "hang" /\ clients # {} /\ Len(broadcast) = QueueCap

\* No worker of the web process was ever started and no listener serves.
NeverStarted ==
  /\ proc.main \notin {"listen", "serving"}
  /\ tpc = "unstarted" /\ bpc = "unstarted"
  /\ \A k \in Kinds : wpc[k] = "unstarted"
  /\ \A c \in Conns : hpc[c] = "idle" /\ conn[c] = "none"
  /\ broadcast = <<>> /\ clients = {}

\* C18: in the web variant a failed first pod list call for all namespaces
\* is fatal: the process exits with a failure, and no watcher, ticker,
\* broadcast consumer or listener is ever started; the workers are started
\* only after that call succeeded.
C18_ProbeGate ==
  /\ proc.probe = "failed" => proc.exit = "1"
  /\ proc.probe # "ok" => NeverStarted
C18_Witness ==
  proc.probe = "failed" /\ source = "podsErr" /\ proc.exit = "1" /\ NeverStarted

\* Every worker of the web process is stopped (or was never started).
Stopped ==
  /\ tpc \in {"unstarted", "dead"} /\ bpc \in {"unstarted", "dead"}
  /\ \A k \in Kinds : wpc[k] \in {"unstarted", "dead"}
  /\ \A c \in Conns : hpc[c] \in {"idle", "dead"}

\* C20: after the process received SIGINT or SIGTERM it exits; from then on
\* no watcher, ticker, broadcast consumer or connection handler takes a step,
\* and no watch session is open.
C20_ShutdownStops ==
  /\ (proc.sig = "got") ~> ~Alive
  /\ [](~Alive => Stopped)
  /\ [][~Alive => UNCHANGED <<hubVars, hpc, hdata, watchVars, tickVars, broadcast>>]_vars
C20_Witness ==
  /\ proc.exit = "0" /\ proc.sig = "got"
  /\ wpc["pods"] = "dead" /\ tpc = "dead" /\ bpc = "dead"
  /\ hpc["c1"] = "dead" /\ conn["c1"] = "closed" /\ "c1" \in clients

\* C19: in the CLI variant a failed client creation, pod list call or
\* deployment list call ends the process with a non-zero exit code and
\* nothing of the visualization printed; no pod line is printed when only
\* the deployment list call fails.
C19_CliFailsSilent ==
  /\ [](cli.err # "none" => cli.exit = "1" /\ cli.out = <<>>)
  /\ [][/\ cli' # cli
        /\ \/ cli.pc = "pods" /\ source = "podsErr"
           \/ cli.pc = "deployments" /\ source = "depsErr"
        => cli'.err # "none" /\ cli'.exit = "1" /\ cli'.out = <<>>]_vars
  /\ [](cli.out # <<>> => cli.pc = "done" /\ cli.err = "none")
C19_Witness ==
  /\ cli.err = "deployments" /\ cli.exit = "1" /\ cli.out = <<>>
  /\ cli.pods # <<>> /\ source = "depsErr"

\* The rows of the given kind in the CLI's output, in the order printed.
Rows(kind) == SelectSeq(cli.out, LAMBDA l : l.kind = kind)

\* C32: for every pod and every deployment the reader returned the CLI
\* prints a row of `total` blocks, `ready` of them filled and `total - ready`
\* empty; no count of empty blocks is negative, and the rendering ends with
\* exit code 0.
C32_RowsRendered ==
  cli.pc = "done" /\ cli.err = "none" =>
    /\ cli.exit = "0"
    /\ Len(Rows("pod")) = Len(cli.pods)
    /\ Len(Rows("deployment")) = Len(cli.deployments)
    /\ \A i \in DOMAIN cli.pods :
         /\ Rows("pod")[i].a = cli.pods[i].ReadyContainers
         /\ Rows("pod")[i].b
              = cli.pods[i].ContainerCount - cli.pods[i].ReadyContainers
         /\ Rows("pod")[i].b >= 0
    /\ \A i \in DOMAIN cli.deployments :
         /\ Rows("deployment")[i].a = cli.deployments[i].ReadyReplicas
         /\ Rows("deployment")[i].b
              = cli.deployments[i].Replicas - cli.deployments[i].ReadyReplicas
         /\ Rows("deployment")[i].b >= 0

\* l is a bar of 50 cells for ready of total: floor(50 * ready / total)
\* filled cells (none when total is 0) and the rest empty.
BarOfFifty(l) ==
  /\ l.a = (IF l.total > 0 THEN (50 * l.ready) \div l.total ELSE 0)
  /\ l.b = 50 - l.a
  /\ l.a \in 0..50
  /\ l.b \in 0..50

\* C33: each summary the CLI prints has a bar of exactly 50 cells, of which
\* floor(50 * ready / total) are filled (none when total is 0) and the rest
\* empty, both counts between 0 and 50; the container summary is over the
\* pods' containers and the replica summary over the deployments' replicas.
C33_SummaryBars ==
  cli.pc = "done" /\ cli.err = "none" =>
    /\ cli.pods # <<>> =>
         /\ Len(Rows("containers")) = 1
         /\ Rows("containers")[1].ready = SumInt(cli.pods, "ReadyContainers")
         /\ Rows("containers")[1].total = SumInt(cli.pods, "ContainerCount")
         /\ BarOfFifty(Rows("containers")[1])
    /\ cli.deployments # <<>> =>
         /\ Len(Rows("replicas")) = 1
         /\ Rows("replicas")[1].ready = cli.deployments[1].ReadyReplicas
         /\ Rows("replicas")[1].total = cli.deployments[1].Replicas
         /\ BarOfFifty(Rows("replicas")[1])

\* What one invocation of a reader r (GetPods or GetDeployments) of the
\* given kind with the namespace ns returned, failing says whether the list
\* call errors and all is the data source's list of the kind: one list call
\* for ns; the error and no records when it errors; else no error and, for
\* the empty ns, one record per object of the cluster.
ReadOnce(r, kind, ns, failing, all) ==
  /\ r.calls = <<Ev("list", kind, ns, 0)>>
  /\ r.err = failing
  /\ failing => r.items = <<>>
  /\ ~failing /\ ns = "" =>
       /\ Len(r.items) = Len(all)
       /\ \A i \in DOMAIN all : r.items[i].Namespace = all[i].namespace
  /\ ~failing /\ ns # "" =>
       \A i \in DOMAIN r.items : r.items[i].Namespace = ns

\* C27: the reader makes exactly one list call per invocation and never
\* retries: when the call errors, GetPods and GetDeployments return the error
\* with no records, and an empty namespace argument reads all namespaces.
\* The CLI's two calls log exactly that one list call and end the process on
\* its error with no records kept.
C27_ReadOnce ==
  /\ [](\A ns \in Namespaces :
         /\ ReadOnce(GetPods(ns), "pods", ns, source = "podsErr", pods)
         /\ ReadOnce(GetDeployments(ns), "deployments", ns,
                     source = "depsErr", deployments))
  /\ [][/\ cli.pc = "pods" /\ cli'.pc # "pods" =>
            /\ io' = <<Ev("list", "pods", cli.ns, 0)>>
            /\ source = "podsErr" => cli'.err = "pods" /\ cli'.pods = <<>>
            /\ source # "podsErr" /\ cli.ns = "" =>
                 cli'.err = "none" /\ Len(cli'.pods) = Len(pods)
        /\ cli.pc = "deployments" /\ cli'.pc # "deployments" =>
            /\ io' = <<Ev("list", "deployments", cli.ns, 0)>>
            /\ source = "depsErr" =>
                 cli'.err = "deployments" /\ cli'.deployments = <<>>
            /\ source # "depsErr" /\ cli.ns = "" =>
                 cli'.err = "none" /\ Len(cli'.deployments) = Len(deployments)
       ]_vars
C27_Witness ==
  /\ io = <<Ev("list", "pods", "", 0)>>
  /\ source = "podsErr"
  /\ cli.err = "pods" /\ cli.pods = <<>>
  /\ Len(pods) = 2

\* The client is in polling mode: fallbackToPolling ran, push is not enabled,
\* no socket is connecting or open and no reconnect is pending.
PollingMode ==
  /\ ui.status = "Polling"
  /\ ~ui.isWebSocketEnabled
  /\ ui.socket \in {"none", "closed"}
  /\ ui.retry = 0
\* The requests of a handler's log: its loads of /api/cluster and its
\* WebSocket connection attempts.
Loads(log) == SelectSeq(log, LAMBDA e : e.op = "fetch")
Dials(log) == SelectSeq(log, LAMBDA e : e.op = "connect")

\* C21: unless a WebSocket opens again and again, the browser client ends
\* up in polling mode for good: it stops attempting to connect (after the
\* first attempt at most MAX_RECONNECT_ATTEMPTS more are made).  Polling mode is entered
\* with a load of /api/cluster for the selected namespace, no connection is
\* attempted in it, and its loads - the interval's, the refresh's, the one
\* of a namespace change - ask for the namespace selected then.
C21_DegradesToPolling ==
  /\ <>[]PollingMode \/ []<>(ui.socket = "open")
  /\ [](/\ ui.reconnectAttempts <= MAX_RECONNECT_ATTEMPTS
        /\ ui.retry <= 1
        /\ ui.dials <= MAX_RECONNECT_ATTEMPTS + 1)
  /\ [][/\ ui'.status = "Polling" /\ ui.status # "Polling" =>
            /\ Loads(io') = <<Ev("fetch", "browser", ui'.currentNamespace, 0)>>
            /\ ui'.checked
        /\ PollingMode =>
            /\ Dials(io') = <<>>
            /\ \A i \in DOMAIN Loads(io') :
                 Loads(io')[i].arg = ui'.currentNamespace
            /\ ui'.currentNamespace # ui.currentNamespace => Loads(io') # <<>>
       ]_vars
C21_Witness ==
  /\ PollingMode
  /\ ui.reconnectAttempts = MAX_RECONNECT_ATTEMPTS
  /\ ui.dials = MAX_RECONNECT_ATTEMPTS + 1
  /\ ui.currentNamespace = "prod"
  /\ io = <<Ev("fetch", "browser", "prod", 0)>>
  /\ ui.view = [kind |-> "data", ns |-> "prod", ver |-> cluster]
  /\ ui.checked /\ ui.intervals = 1 /\ ~ui.first

\* C34: reconnectAttempts stays within 0..MAX_RECONNECT_ATTEMPTS and bounds
\* the connection attempts made since the last open (the first one aside).
\* A reconnect is scheduled only by a close at fewer than
\* MAX_RECONNECT_ATTEMPTS, which counts it; the counter goes down only to 0
\* and only when a connecting socket opens; a close at
\* MAX_RECONNECT_ATTEMPTS falls back to polling without scheduling or
\* attempting anything, and from polling mode no attempt is made again.
C34_AttemptsBounded ==
  /\ [](/\ ui.reconnectAttempts \in 0..MAX_RECONNECT_ATTEMPTS
        /\ ui.dials + ui.retry <= ui.reconnectAttempts + 1)
  /\ [][/\ ui'.retry > ui.retry =>
            /\ ui.reconnectAttempts < MAX_RECONNECT_ATTEMPTS
            /\ ui'.reconnectAttempts = ui.reconnectAttempts + 1
            /\ ui'.retry = ui.retry + 1
            /\ ui'.socket = "closed" /\ ui.socket \notin {"none", "closed"}
        /\ ui'.reconnectAttempts < ui.reconnectAttempts =>
            /\ ui'.reconnectAttempts = 0
            /\ ui'.socket = "open" /\ ui.socket = "connecting"
        /\ ui'.socket = "open" /\ ui.socket # "open" =>
            ui'.reconnectAttempts = 0
        /\ /\ ui.socket \notin {"none", "closed"} /\ ui'.socket = "closed"
           /\ ui.reconnectAttempts = MAX_RECONNECT_ATTEMPTS
           => PollingMode' /\ Dials(io') = <<>>
        /\ PollingMode => PollingMode' /\ Dials(io') = <<>>
       ]_vars
C34_Witness ==
  /\ ui.status = "Polling" /\ ui.socket = "closed" /\ ui.retry = 0
  /\ ui.reconnectAttempts = MAX_RECONNECT_ATTEMPTS
  /\ ui.dials = MAX_RECONNECT_ATTEMPTS + 1
  /\ ui.currentNamespace = ""
  /\ Loads(io) = <<Ev("fetch", "browser", "", 0)>> /\ Dials(io) = <<>>

\* C35: once disconnectWebSocket was called no WebSocket of the client is
\* open again, whatever state it was called in - a pending reconnect timer
\* included.
C35_NeverOpensAgain == ui.disconnected => ui.socket # "open"

\* C36: the step that falls back to polling leaves a refresh interval
\* running, whether the page came with the auto-refresh checkbox checked or
\* not; no more than one interval runs at any time; and the step that opens
\* a WebSocket leaves none running.
C36_PollingRefreshes ==
  /\ [](ui.intervals <= 1)
  /\ [][/\ ui'.status = "Polling" /\ ui.status # "Polling" =>
            ui'.intervals = 1 /\ ui'.autoRefreshInterval
        /\ ui'.socket = "open" /\ ui.socket # "open" =>
            ui'.intervals = 0 /\ ~ui'.autoRefreshInterval
       ]_vars

\* Two pods of the same namespace and name.
SamePod(p, q) == p.namespace = q.namespace /\ p.name = q.name
Among(p, ps) == \E i \in DOMAIN ps : ps[i] = p

\* C37: of an update with pods, a pod is among the new ones exactly when the
\* update before had no pod of its namespace and name, and a pod of the
\* update before is among the removed ones exactly when the update has no
\* pod of its namespace and name - pods of different namespaces that share
\* a name included.
C37_TracksIdentity ==
  LET t == ui.track
  IN  t.pods # <<>> =>
        /\ \A i \in DOMAIN t.pods :
             Among(t.pods[i], t.newPods)
               <=> ~\E j \in DOMAIN t.before : SamePod(t.before[j], t.pods[i])
        /\ \A j \in DOMAIN t.before :
             Among(t.before[j], t.removedPods)
               <=> ~\E i \in DOMAIN t.pods : SamePod(t.before[j], t.pods[i])

\* C23: for the whole lifetime of the server the watchers and the ticker are
\* started once (no tick, event or error starts a second one for a role),
\* and from then on one pod watcher, one deployment watcher, one ticker and
\* one consumer are running.
C23_OneOfEach ==
  /\ proc.launched <= 1
  /\ tpc = "launch" => proc.launched = 0
  /\ Alive /\ proc.main \in {"listen", "serving"} =>
       /\ bpc \notin {"unstarted", "dead"}
       /\ tpc \notin {"unstarted", "dead"}
       /\ tpc # "launch" =>
            /\ proc.launched = 1
            /\ \A k \in Kinds : wpc[k] \notin {"unstarted", "dead", "returned"}
C23_Witness ==
  /\ Running /\ proc.launched = 1
  /\ source = "depsErr" /\ io # <<>> /\ io[1].op = "tick"
  /\ wpc["pods"] = "pause"

\* The last step was a Watch call of the watcher of kind k.
Attempted(k) == io # <<>> /\ io[1].op = "watch" /\ io[1].who = k
InSession == {"streaming", "offer"}

\* C24: a watcher never makes two connect attempts back to back: a failed
\* connect takes it to the connect backoff and a successful one to
\* streaming; it comes back to connecting only out of the backoff or out of
\* the pause after a session, and it leaves streaming only for that pause,
\* when the event stream of the session is closed.
C24_WatcherCycle ==
  [][\A k \in Kinds :
       /\ Attempted(k)' =>
            /\ wpc[k] = "connecting"
            /\ wpc'[k] = IF io'[1].arg = "opened" THEN "streaming" ELSE "backoff"
       /\ wpc[k] = "connecting" /\ wpc'[k] # "connecting" => Attempted(k)'
       /\ wpc[k] # "connecting" /\ wpc'[k] = "connecting" =>
            wpc[k] \in {"backoff", "pause"}
       /\ wpc[k] = "backoff" => wpc'[k] \in {"backoff", "connecting"}
       /\ wpc[k] \in InSession /\ wpc'[k] \notin InSession => wpc'[k] = "pause"
       /\ wpc[k] = "pause" => wpc'[k] \in {"pause", "connecting"}]_vars
C24_Witness ==
  /\ Attempted("pods") /\ io[1].arg = "failed" /\ wpc["pods"] = "backoff"
  /\ wpc["deployments"] = "pause"

\* C30: for each resource kind at most one watch session is open at any
\* time: the session of a watcher is stopped before it opens the next one.
C30_OneSession ==
  \A k \in Kinds :
    /\ wopen[k] \in {0, 1}
    /\ wopen[k] = 1 <=> wpc[k] \in InSession
C30_Witness ==
  /\ io # <<>> /\ io[1].op = "reopen" /\ io[1].who = "pods"
  /\ wopen["pods"] = 0 /\ wopen["deployments"] = 1

\* Worker w is at a conn.WriteJSON call on connection c.
Writing(w, c) ==
  IF w = "hub" THEN bpc = "write" /\ bconn = c ELSE w = c /\ hpc[c] = "write"

\* C28: no two workers write to the same subscriber connection at once: the
\* handler's write of the initial snapshot and the consumer's write of a
\* published snapshot to that connection never overlap.
C28_OneWriter ==
  \A c \in Conns : ~(Writing("hub", c) /\ Writing(c, c))

\* The last step was the initial fetch of the handler of c, and it failed on
\* a list call.
InitialFailed(c) ==
  /\ io # <<>>
  /\ io[1] = Ev("initial", c, "", 0)
  /\ \/ io[Len(io)].who = "pods" /\ source = "podsErr"
     \/ io[Len(io)].who = "deployments" /\ source = "depsErr"

\* C29: a new subscriber is served without a watch event or a tick: right
\* after it is registered its handler fetches a snapshot for all namespaces
\* and writes it to that subscriber; when the fetch fails nothing is written,
\* the subscriber stays registered and every later publish ranges over it.
C29_InitialSnapshot ==
  /\ [](\A c \in Conns :
          /\ hpc[c] = "len" /\ Answers => ENABLED HFetch(c)
          /\ hpc[c] = "write" /\ conn[c] # "stalled" => ENABLED HWrite(c))
  /\ [][\A c \in Conns :
          /\ hpc[c] = "add" /\ hpc'[c] # "add" =>
               hpc'[c] = "len" /\ c \in clients'
          /\ hpc[c] = "len" /\ hpc'[c] # "len" =>
               /\ io'[1] = Ev("initial", c, "", 0)
               /\ \A i \in 2..Len(io') : io'[i].op = "list" /\ io'[i].arg = AllNamespaces
               /\ IF InitialFailed(c)'
                    THEN /\ hpc'[c] = "read"
                         /\ UNCHANGED <<lastver, clients, conn>>
                    ELSE /\ hpc'[c] = "write"
                         /\ hdata'[c] = [ver |-> cluster]
          /\ hpc[c] = "write" /\ hpc'[c] # "write" =>
               /\ hpc'[c] = "read"
               /\ conn[c] = "open" => lastver'[c] = hdata[c].ver
               /\ UNCHANGED clients
          /\ bpc = "rlock" /\ bpc' # "rlock" => btodo' = clients]_vars
C29_Witness ==
  /\ InitialFailed("c1") /\ hpc["c1"] = "read" /\ "c1" \in clients
  /\ Writing("hub", "c1") /\ conn["c1"] = "open" /\ lastver["c1"] = -1

====
